---- MODULE Spec2Model ----
(***************************************************************************)
(* State-machine model of the authentication core of hyperoptic-py:        *)
(* TokenSet, HyperopticAuth (src/hyperoptic/auth.py) and the request path  *)
(* of HyperopticClient (src/hyperoptic/client.py).                         *)
(*                                                                         *)
(* A caller is a thread of control inside the library.  Its position is a  *)
(* program counter plus a stack of return labels; one action is one        *)
(* statement group of the source up to and including its HTTP round trip.  *)
(* The server is the environment: every HTTP round trip draws its answer   *)
(* (status, body, headers, or a transport failure) from a small set.       *)
(* Time is the value of time.time() in seconds; it advances only while     *)
(* every caller is blocked in an HTTP round trip or outside the library.   *)
(***************************************************************************)
EXTENDS Integers, Sequences, FiniteSets, TLC

(***************************************************************************)
(* Bounds of the model.                                                    *)
(***************************************************************************)
\* 200 answers the token endpoint gives in one behaviour
MaxIssued == 3
\* clock advances in one behaviour
MaxTicks == 2

(***************************************************************************)
(* Program constants.                                                      *)
(***************************************************************************)
GRACE == 30
DEFAULT_EXPIRES_IN == 300
DEFAULT_REFRESH_EXPIRES_IN == 1800
MAX_REDIRECTS == 5

TOKEN_URL == "https://auth.hyperoptic.com/realms/hyperoptic/protocol/openid-connect/token"
AUTH_URL == "https://auth.hyperoptic.com/realms/hyperoptic/protocol/openid-connect/auth"
DEFAULT_REDIRECT_URI == "https://account.hyperoptic.com/my-plan"
API_BASE == "https://api.hyperopticportal.com/account-service"

(***************************************************************************)
(* The environment's value sets.                                           *)
(***************************************************************************)
Callers == {1, 2}

\* a JSON field that the body does not carry
Absent == -1
\* status of a round trip that raised httpx.TransportError instead of answering
TransportFailure == 0

\* seconds by which the clock may advance at once
TickSteps == {300, 1800}

TokenStatuses == {200, 201, 400}
ExpiresInFields == {Absent, 20}
RefreshExpiresInFields == {Absent, 20}
LoginPageStatuses == {200, 500}
CredentialStatuses == {200, 302, 303, 307}
WalkStatuses == {200, 302, 307}
ResourceStatuses == {200, 302, 401, 404, 500}
Paths == {"/customers"}

(***************************************************************************)
(* URLs with a query string, as urlparse/parse_qs see them: a base and the *)
(* sequence of key/value pairs of the query.                               *)
(***************************************************************************)
LocEmpty == [base |-> "", query |-> << >>]
LocNoCode == [base |-> "https://auth.hyperoptic.com/realms/hyperoptic/login-actions/required-action",
              query |-> << <<"execution", "x">> >>]
\* a blank value: parse_qs drops it
LocBlankCode == [base |-> DEFAULT_REDIRECT_URI, query |-> << <<"code", "">>, <<"state", "xyz">> >>]
LocCode == [base |-> DEFAULT_REDIRECT_URI, query |-> << <<"code", "abc123">>, <<"state", "xyz">> >>]
Locations == {LocEmpty, LocNoCode, LocCode}

\* the value None of an optional string
None == ""

\* a variant that returns the last code parameter
_extract_code_from_redirectLast(url) ==
    LET codes == SelectSeq(url.query, LAMBDA p : p[1] = "code" /\ p[2] # "")
    IN  IF codes # << >> THEN codes[Len(codes)][2] ELSE None

\* urlparse(url).query, parse_qs (which drops blank values), qs.get("code")
\* and codes[0]
_extract_code_from_redirect(url) ==
    LET codes == SelectSeq(url.query, LAMBDA p : p[1] = "code" /\ p[2] # "")
    IN  IF codes # << >> THEN codes[1][2] ELSE None

(***************************************************************************)
(* HTML documents: the sequence of their tags, each with its attributes in *)
(* document order.                                                         *)
(***************************************************************************)
Attr(n, v) == [n |-> n, v |-> v]
KcActionRaw == "https://auth.hyperoptic.com/realms/hyperoptic/login-actions/authenticate?session_code=s&amp;tab_id=t"
KcAction == "https://auth.hyperoptic.com/realms/hyperoptic/login-actions/authenticate?session_code=s&tab_id=t"
OtherAction == "https://login.example.net/submit"

PageKeycloak == << [name |-> "form",
                    attrs |-> << Attr("id", "kc-form-login"), Attr("action", KcActionRaw), Attr("method", "post") >>] >>
PageReversed == << [name |-> "div", attrs |-> << Attr("class", "login") >>],
                   [name |-> "FORM",
                    attrs |-> << Attr("METHOD", "POST"), Attr("ACTION", OtherAction) >>] >>
PageGetForm == << [name |-> "form",
                   attrs |-> << Attr("action", OtherAction), Attr("method", "get") >>] >>
PageNoForm == << [name |-> "div", attrs |-> << Attr("class", "error") >>] >>
LoginPages == {PageKeycloak, PageReversed, PageGetForm, PageNoForm}

\* str.lower() on the names and values that occur (re.IGNORECASE)
Lower(s) ==
    CASE s = "FORM" -> "form"
      [] s = "METHOD" -> "method"
      [] s = "ACTION" -> "action"
      [] s = "POST" -> "post"
      [] s = "GET" -> "get"
      [] OTHER -> s

\* html.unescape() on the attribute values that occur
Unescape(s) == IF s = KcActionRaw THEN KcAction ELSE s

\* the end of an attribute name from its last word boundary on: \baction=
\* and \bmethod= match there, so also inside a hyphenated name
WordTail(n) ==
    CASE n = "data-action" -> "action"
      [] n = "data-method" -> "method"
      [] OTHER -> n

\* \baction=["']([^"']+)["'] and \bmethod=["']post["'] on one attribute
IsActionAttr(a) == WordTail(Lower(a.n)) = "action" /\ a.v # ""
IsPostAttr(a) == WordTail(Lower(a.n)) = "method" /\ Lower(a.v) = "post"

\* positions of the action attribute that the first pattern can capture in a tag
ActionBeforeMethod(t) ==
    {i \in DOMAIN t.attrs : /\ IsActionAttr(t.attrs[i])
                            /\ \E j \in DOMAIN t.attrs : j > i /\ IsPostAttr(t.attrs[j])}
\* positions of the action attribute that the reversed pattern can capture
MethodBeforeAction(t) ==
    {j \in DOMAIN t.attrs : /\ IsActionAttr(t.attrs[j])
                            /\ \E i \in DOMAIN t.attrs : i < j /\ IsPostAttr(t.attrs[i])}

Max(S) == CHOOSE x \in S : \A y \in S : y <= x
Min(S) == CHOOSE x \in S : \A y \in S : x <= y

\* re.search with the first pattern, or with the reversed one: the leftmost
\* form tag the pattern matches; the greedy [^>]* before the group makes the
\* group the last attribute that can match
SearchForm(html, reversed) ==
    LET Positions(t) == IF reversed THEN MethodBeforeAction(t) ELSE ActionBeforeMethod(t)
        hits == {k \in DOMAIN html : Lower(html[k].name) = "form" /\ Positions(html[k]) # {}}
    IN  IF hits = {} THEN None
        ELSE LET t == html[Min(hits)] IN t.attrs[Max(Positions(t))].v

\* the document has a form tag with a POST method and a non-empty action
HasPostForm(html) ==
    \E k \in DOMAIN html :
        /\ Lower(html[k].name) = "form"
        /\ \E i \in DOMAIN html[k].attrs :
              Lower(html[k].attrs[i].n) = "method" /\ Lower(html[k].attrs[i].v) = "post"
        /\ \E i \in DOMAIN html[k].attrs :
              Lower(html[k].attrs[i].n) = "action" /\ html[k].attrs[i].v # ""

\* a variant that falls back to a fixed action when the page has no form
_extract_form_actionOrDefault(html) ==
    LET first == SearchForm(html, FALSE)
        match == IF first # None THEN first ELSE SearchForm(html, TRUE)
    IN  IF match # None THEN Unescape(match) ELSE OtherAction

_extract_form_action(html) ==
    LET first == SearchForm(html, FALSE)
        match == IF first # None THEN first ELSE SearchForm(html, TRUE)
    IN  IF match # None THEN Unescape(match) ELSE None

(***************************************************************************)
(* TokenSet.                                                               *)
(***************************************************************************)
\* self._tokens = None
NoTokenSet == [held |-> FALSE, access_token |-> 0, refresh_token |-> 0,
               expires_in |-> 0, refresh_expires_in |-> 0,
               expires_at |-> 0, refresh_expires_at |-> 0]

\* a variant that takes the expiry timestamps from the epoch
TokenSetFromEpoch(access, refresh, expires_in, refresh_expires_in, expires_at, refresh_expires_at, t) ==
    [held |-> TRUE, access_token |-> access, refresh_token |-> refresh,
     expires_in |-> expires_in, refresh_expires_in |-> refresh_expires_in,
     expires_at |-> IF expires_at = 0 THEN expires_in ELSE expires_at,
     refresh_expires_at |-> IF refresh_expires_at = 0 THEN refresh_expires_in
                            ELSE refresh_expires_at]

\* TokenSet(...) with __post_init__ run at time t; the timestamps are passed
\* as 0 (the dataclass default) by every constructor call of the library
TokenSet(access, refresh, expires_in, refresh_expires_in, expires_at, refresh_expires_at, t) ==
    [held |-> TRUE, access_token |-> access, refresh_token |-> refresh,
     expires_in |-> expires_in, refresh_expires_in |-> refresh_expires_in,
     expires_at |-> IF expires_at = 0 THEN t + expires_in ELSE expires_at,
     refresh_expires_at |-> IF refresh_expires_at = 0 THEN t + refresh_expires_in
                            ELSE refresh_expires_at]

\* a variant that leaves the boundary out
refresh_expiredAfter(ts, t) == t > ts.refresh_expires_at - GRACE
\* a variant without the grace
access_expiredNoGrace(ts, t) == t >= ts.expires_at
access_expired(ts, t) == t >= ts.expires_at - GRACE
refresh_expired(ts, t) == t >= ts.refresh_expires_at - GRACE

\* a variant that reads a missing key as 0
GetOrZero(v, default) == IF v = Absent THEN 0 ELSE v
\* dict.get(key, default)
Get(v, default) == IF v = Absent THEN default ELSE v

\* data["access_token"] / data["refresh_token"] raise KeyError when missing
HasTokens(data) == data.access_token # Absent /\ data.refresh_token # Absent

\* a variant that reads each lifetime from the other's field
_store_tokensSwapped(data, t) ==
    TokenSet(data.access_token, data.refresh_token,
             Get(data.refresh_expires_in, DEFAULT_REFRESH_EXPIRES_IN),
             Get(data.expires_in, DEFAULT_EXPIRES_IN), 0, 0, t)

\* a variant that takes the two expiry timestamps at different times
_store_tokensTwoClocks(data, t) ==
    TokenSet(data.access_token, data.refresh_token,
             Get(data.expires_in, DEFAULT_EXPIRES_IN),
             Get(data.refresh_expires_in, DEFAULT_REFRESH_EXPIRES_IN),
             0, t + 1 + Get(data.refresh_expires_in, DEFAULT_REFRESH_EXPIRES_IN), t)

_store_tokens(data, t) ==
    TokenSet(data.access_token, data.refresh_token,
             Get(data.expires_in, DEFAULT_EXPIRES_IN),
             Get(data.refresh_expires_in, DEFAULT_REFRESH_EXPIRES_IN), 0, 0, t)

(***************************************************************************)
(* Token-endpoint JSON bodies.  The server numbers the tokens it issues:   *)
(* the n-th token set it issues is access token n with refresh token       *)
(* 1000 + n.  A body that lacks a token issues nothing.                    *)
(***************************************************************************)
NoBody == [access_token |-> Absent, refresh_token |-> Absent,
           expires_in |-> Absent, refresh_expires_in |-> Absent]

TokenBodies(n) ==
    {[access_token |-> n, refresh_token |-> 1000 + n, expires_in |-> e, refresh_expires_in |-> r] :
        e \in ExpiresInFields, r \in RefreshExpiresInFields}
    \cup {[NoBody EXCEPT !.access_token = n], [NoBody EXCEPT !.refresh_token = 1000 + n]}

(***************************************************************************)
(* State.                                                                  *)
(***************************************************************************)
VARIABLES
    tokens,     \* HyperopticAuth._tokens
    now,        \* time.time()
    ticks,      \* clock advances so far
    issued,     \* token sets the token endpoint has issued
    th,         \* per caller: program counter, return stack, locals, result
    obs,        \* per caller: what the current call has sent and received
    http        \* HyperopticClient._http and HyperopticAuth._http: open or closed

vars == <<tokens, now, ticks, issued, th, obs, http>>

NoResult == [kind |-> "none", exc |-> "", val |-> 0, status_code |-> 0, url |-> ""]

\* arg is the argument of a direct call of a helper (a constructor call, a
\* static method); accounts and connections are the locals of the loop of
\* get_my_connections: the accounts from the current one on, and the list
\* built so far
Thread(pc) == [pc |-> pc, stack |-> << >>, retval |-> 0, result |-> NoResult,
               path |-> "", form_action |-> None, location |-> LocEmpty,
               hops |-> 0, code |-> None, code_verifier |-> << >>, arg |-> << >>,
               accounts |-> << >>, connections |-> << >>]

\* the record of one login(): how many password grants, login-page GETs,
\* credential POSTs and code exchanges it has sent, the status of its
\* password grant and of its login page (Absent before the answer), whether
\* the page answered has a POST form with an action, and the body it stored;
\* whether its credential POST was answered 302 or 303, whether its last
\* redirect GET was answered with a status that is no redirect, the Location
\* header of the last response of the redirect chain (the credential POST's
\* or a redirect GET's), the status of its code exchange and the
\* code_verifier that exchange carried
NoLogin == [nPw |-> 0, nPage |-> 0, nCred |-> 0, nExch |-> 0, pw |-> Absent,
            page |-> Absent, form |-> FALSE, body |-> NoBody,
            redirected |-> FALSE, stopped |-> FALSE, loc |-> LocEmpty, exch |-> Absent,
            verifier |-> << >>]

\* the state of the Auth Manager (spec section 4.4)
AuthState(ts, t) ==
    IF ~ts.held THEN "Unauthenticated"
    ELSE IF ~access_expired(ts, t) THEN "Authenticated"
    ELSE IF ~refresh_expired(ts, t) THEN "AccessExpired"
    ELSE "FullyExpired"

NoRequest == [kind |-> "none", url |-> "", fields |-> {}, token |-> 0]

\* What a call has done so far: the operation and the state it started in;
\* the logins, password grants, PKCE flows and refreshes it has made; the last
\* request it sent and whether an authentication round trip failed in
\* transport; its current (or last) login, the body its first login
\* stored and the body the login after a 401 stored; the refresh token its
\* refresh POST carried, the one held at that moment, the logins made before
\* it and its answer; its resource round trips; and the code_challenge of
\* each login-page GET it has sent.
Observation(op) ==
    [op |-> op, entry |-> AuthState(tokens, now),
     nLogin |-> 0, nPw |-> 0, nPkce |-> 0, nRefresh |-> 0,
     req |-> NoRequest, tf |-> FALSE, lg |-> NoLogin, first |-> NoBody, relogin |-> NoBody,
     rfSent |-> Absent, rfHeld |-> Absent, rfAt |-> 0, rfStatus |-> Absent, rfBody |-> NoBody,
     res |-> << >>, challenges |-> << >>]

NoObservation == [Observation("none") EXCEPT !.entry = "Unauthenticated"]

Init ==
    /\ tokens = NoTokenSet
    /\ now = 0
    /\ ticks = 0
    /\ issued = 0
    /\ th = [c \in Callers |-> Thread(IF c = 1 THEN "idle" ELSE "off")]
    /\ obs = [c \in Callers |-> NoObservation]
    /\ http = [client |-> "open", auth |-> "open"]

(***************************************************************************)
(* Control flow: call, return, raise.                                      *)
(***************************************************************************)
\* locals of _login_pkce_flow go out of scope
DropLocals(t) == [t EXCEPT !.form_action = None, !.location = LocEmpty, !.hops = 0, !.code = None,
                           !.code_verifier = << >>]

\* a variant in which access_token tests the TokenSet again after a renewal
CallThenCheckAgain(t, entry, back) ==
    [t EXCEPT !.pc = entry, !.stack = <<IF back = "at_ret" THEN "at_check" ELSE back>> \o t.stack]
Call(t, entry, back) == [t EXCEPT !.pc = entry, !.stack = <<back>> \o t.stack]

Return(t, v) ==
    IF t.stack = << >>
    THEN [DropLocals(t) EXCEPT !.pc = "done", !.retval = 0,
                               !.result = [NoResult EXCEPT !.kind = "return", !.val = v]]
    ELSE [DropLocals(t) EXCEPT !.pc = Head(t.stack), !.stack = Tail(t.stack), !.retval = v]

\* a variant in which _request turns a failure of its re-login into the
\* APIError of the 401
RaiseErrorAsAPIError(t, result) ==
    [DropLocals(t) EXCEPT !.pc = "done", !.stack = << >>, !.retval = 0,
                          !.result = IF \E i \in DOMAIN t.stack : t.stack[i] = "rq_hdr2"
                                     THEN [NoResult EXCEPT !.kind = "raise", !.exc = "APIError",
                                                           !.status_code = 401, !.url = t.path]
                                     ELSE result]

\* no frame of the library but login() around the password grant catches
\* anything, so an exception raised elsewhere unwinds to the caller
RaiseError(t, result) ==
    [DropLocals(t) EXCEPT !.pc = "done", !.stack = << >>, !.retval = 0, !.result = result]

\* a variant in which login() catches every exception of the password grant
RaiseCaughtByLogin(t, exc) ==
    IF exc = "TransportError" /\ t.pc = "pw_grant" THEN [t EXCEPT !.pc = "pk_auth"]
    ELSE RaiseError(t, [NoResult EXCEPT !.kind = "raise", !.exc = exc])

\* a variant in which login() swallows the AuthenticationError of the PKCE
\* flow and returns
RaiseSwallowedByLogin(t, exc) ==
    IF exc = "AuthenticationError" /\ t.pc \in {"pk_auth", "pk_post", "pk_walk", "pk_exchange"}
    THEN Return(t, 0)
    ELSE RaiseError(t, [NoResult EXCEPT !.kind = "raise", !.exc = exc])

Raise(t, exc) == RaiseError(t, [NoResult EXCEPT !.kind = "raise", !.exc = exc])

(***************************************************************************)
(* Requests.  A request is the statement that sends it, its URL, the names *)
(* of the form fields or query parameters it carries, and the token it     *)
(* carries (refresh token or bearer), if any.                              *)
(***************************************************************************)
Request(kind, url, fields, token) == [kind |-> kind, url |-> url, fields |-> fields, token |-> token]

PasswordGrantRequest ==
    Request("password_grant", TOKEN_URL, {"grant_type", "client_id", "username", "password", "scope"}, 0)
\* a variant that puts the credentials into the query of the login-page GET
LoginPageRequestWithCredentials ==
    Request("login_page", AUTH_URL, {"client_id", "redirect_uri", "response_type", "scope",
                                     "code_challenge", "code_challenge_method",
                                     "username", "password"}, 0)
LoginPageRequest ==
    Request("login_page", AUTH_URL, {"client_id", "redirect_uri", "response_type", "scope",
                       "code_challenge", "code_challenge_method"}, 0)
CredentialRequest(form_action) == Request("credentials", form_action, {"username", "password"}, 0)
RedirectRequest(location) == Request("redirect", location.base, {}, 0)
ExchangeRequest ==
    Request("exchange", TOKEN_URL, {"grant_type", "client_id", "code", "redirect_uri", "code_verifier"}, 0)
\* a variant that posts the access token as refresh_token
RefreshRequestWithAccessToken(ts) ==
    Request("refresh", TOKEN_URL, {"grant_type", "client_id", "refresh_token"}, ts.access_token)
RefreshRequest(ts) ==
    Request("refresh", TOKEN_URL, {"grant_type", "client_id", "refresh_token"}, ts.refresh_token)
ResourceRequest(path, bearer) == Request("resource", path, {"Authorization"}, bearer)

\* the observation of a caller that has just sent req
Sent(o, req) == [o EXCEPT !.req = req]

\* the observation of a caller whose authentication request was answered
\* with status, or not at all
Answer(o, status) == [o EXCEPT !.tf = (status = TransportFailure)]

(***************************************************************************)
(* Answers of the server.                                                  *)
(***************************************************************************)
TokenAnswers ==
    {[status |-> s, body |-> NoBody] : s \in (TokenStatuses \ {200}) \cup {TransportFailure}}
    \cup (IF issued < MaxIssued
          THEN {[status |-> 200, body |-> b] : b \in TokenBodies(issued + 1)}
          ELSE {})

LoginPageAnswers ==
    {[status |-> s, text |-> << >>] : s \in (LoginPageStatuses \ {200}) \cup {TransportFailure}}
    \cup {[status |-> 200, text |-> p] : p \in LoginPages}

\* no Location header reads as "" (headers.get("location", ""))
CredentialAnswers ==
    {[status |-> s, location |-> LocEmpty] : s \in {TransportFailure, 200}}
    \cup {[status |-> s, location |-> l] : s \in CredentialStatuses \ {200}, l \in Locations}

WalkAnswers ==
    {[status |-> s, location |-> LocEmpty] : s \in {TransportFailure, 200}}
    \cup {[status |-> s, location |-> l] : s \in WalkStatuses \ {200}, l \in Locations}

ResourceAnswers == {[status |-> s] : s \in ResourceStatuses \cup {TransportFailure}}

\* the observation of a caller whose login has just stored body
LoginStored(o, body) ==
    [o EXCEPT !.lg.body = body,
              !.first = IF o.nLogin = 1 THEN body ELSE @,
              !.relogin = IF Len(o.res) = 1 /\ o.nLogin = o.res[1].nLogin + 1 THEN body ELSE @]

\* the server issues a token set with every well-formed 200 token answer
Issue(a) == IF a.status = 200 /\ HasTokens(a.body) THEN issued + 1 ELSE issued

(***************************************************************************)
(* The conditions the code branches on.                                    *)
(***************************************************************************)
\* variants that take only error statuses for a failure
PasswordGrantRefusedOnError(status) == status >= 400
RefreshFailedOnError(status) == status >= 400
\* variants of the test for an authorization failure
UnauthorizedIs403(status) == status = 403
UnauthorizedOrNotFound(status) == status \in {401, 404}
\* variants of the tests of the PKCE flow: any redirect status will do after
\* the credential POST; only an error status fails the code exchange
NotRedirectedAny(status) == status \notin {301, 302, 303, 307, 308}
ExchangeFailedOnError(status) == status >= 400
PasswordGrantRefused(status) == status # 200
LoginPageFailed(status) == status # 200
NotRedirected(status) == status \notin {302, 303}
WalkStops(status) == status \notin {301, 302, 303, 307, 308}
ExchangeFailed(status) == status # 200
RefreshFailed(status) == status # 200
Unauthorized(status) == status = 401
IsError(status) == status >= 400

\* a variant that logs in again as soon as the refresh token has expired
RenewalOnRefreshExpiry(ts, t) ==
    IF refresh_expired(ts, t) THEN "login"
    ELSE IF access_expired(ts, t) THEN "rf_post" ELSE "at_ret"

\* a variant that refreshes whatever the age of the refresh token
RenewalAlwaysRefresh(ts, t) == IF access_expired(ts, t) THEN "rf_post" ELSE "at_ret"

\* what access_token does with the held TokenSet before it returns
Renewal(ts, t) ==
    IF access_expired(ts, t)
    THEN IF refresh_expired(ts, t) THEN "login" ELSE "rf_post"
    ELSE "at_ret"

(***************************************************************************)
(* The PKCE pair: a random verifier and its S256 challenge.                *)
(***************************************************************************)
\* a variant that generates the verifier once and keeps it
_generate_code_verifierOnce(caller, draw) == <<65, 65>>

\* secrets.token_urlsafe(96)[:128]: 128 characters from 768 random bits.
\* Two draws are taken to differ: a draw is told apart by the caller that
\* makes it and by its number among the draws of that caller's call, and
\* stands as two characters here.
_generate_code_verifier(caller, draw) == <<65 + caller, 65 + draw>>

\* bytes of a SHA-256 digest
DIGEST_SIZE == 32
\* the padding character "=" of base64, next to the 64 characters 0..63 of
\* the URL-safe alphabet
Pad == 64

\* hashlib.sha256(data).digest(): a fixed function of the bytes of data to
\* DIGEST_SIZE bytes (the mixing of SHA-256 itself is not modelled)
sha256(data) ==
    LET RECURSIVE Mix(_)
        Mix(s) == IF s = << >> THEN 0 ELSE (Head(s) + 33 * Mix(Tail(s))) % 65536
    IN  [i \in 1..DIGEST_SIZE |-> (31 * Mix(data) + 7 * i + 131 * Len(data)) % 256]

\* base64.urlsafe_b64encode: every 3 bytes give 4 characters; a last group of
\* 1 or 2 bytes gives 2 or 3 characters and is filled up with "="
urlsafe_b64encode(bytes) ==
    LET n == Len(bytes)
        Byte(i) == IF i <= n THEN bytes[i] ELSE 0
        Group(g) == Byte(3 * g + 1) * 65536 + Byte(3 * g + 2) * 256 + Byte(3 * g + 3)
        Char(g, k) ==
            IF 3 * g + k > n + 1 THEN Pad
            ELSE CASE k = 1 -> Group(g) \div 262144
                   [] k = 2 -> (Group(g) \div 4096) % 64
                   [] k = 3 -> (Group(g) \div 64) % 64
                   [] k = 4 -> Group(g) % 64
    IN  [j \in 1..(4 * ((n + 2) \div 3)) |-> Char((j - 1) \div 4, ((j - 1) % 4) + 1)]

\* bytes.rstrip(b"=")
RECURSIVE rstrip(_)
rstrip(s) == IF s # << >> /\ s[Len(s)] = Pad THEN rstrip(SubSeq(s, 1, Len(s) - 1)) ELSE s

\* a variant that salts the digest with the clock
_generate_code_challengeSalted(verifier) ==
    rstrip(urlsafe_b64encode(sha256(verifier \o <<now % 256>>)))

\* digest, then its encoding, then the encoding without its padding, each
\* step on the value of the step before
_generate_code_challenge(verifier) ==
    CHOOSE challenge \in {rstrip(encoded) : encoded \in {urlsafe_b64encode(digest) :
                                                            digest \in {sha256(verifier)}}} : TRUE

(***************************************************************************)
(* HyperopticAuth.login                                                    *)
(***************************************************************************)
login(c) ==
    /\ th[c].pc = "login"
    /\ th' = [th EXCEPT ![c].pc = "pw_grant"]
    /\ obs' = [obs EXCEPT ![c].nLogin = @ + 1, ![c].lg = NoLogin]
    /\ UNCHANGED <<tokens, now, ticks, issued, http>>

\* _login_password_grant inside login's try/except AuthenticationError
_login_password_grant(c) ==
    /\ th[c].pc = "pw_grant"
    /\ \E a \in TokenAnswers :
        LET t == th[c]
            o == [Answer(Sent(obs[c], PasswordGrantRequest), a.status) EXCEPT
                     !.nPw = @ + 1, !.lg.nPw = @ + 1, !.lg.pw = a.status]
        IN  /\ issued' = Issue(a)
            /\ IF a.status = TransportFailure
               THEN /\ th' = [th EXCEPT ![c] = Raise(t, "TransportError")]
                    /\ obs' = [obs EXCEPT ![c] = o]
                    /\ UNCHANGED tokens
               ELSE IF PasswordGrantRefused(a.status)
               THEN /\ th' = [th EXCEPT ![c].pc = "pk_auth"]
                    /\ obs' = [obs EXCEPT ![c] = o]
                    /\ UNCHANGED tokens
               ELSE IF ~HasTokens(a.body)
               THEN /\ th' = [th EXCEPT ![c] = Raise(t, "KeyError")]
                    /\ obs' = [obs EXCEPT ![c] = o]
                    /\ UNCHANGED tokens
               ELSE /\ tokens' = _store_tokens(a.body, now)
                    /\ th' = [th EXCEPT ![c] = Return(t, 0)]
                    /\ obs' = [obs EXCEPT ![c] = LoginStored(o, a.body)]
    /\ UNCHANGED <<now, ticks, http>>

(***************************************************************************)
(* HyperopticAuth._login_pkce_flow, one action per HTTP round trip         *)
(***************************************************************************)
PkceLoginPage(c) ==
    /\ th[c].pc = "pk_auth"
    /\ \E a \in LoginPageAnswers :
        LET t == th[c]
            code_verifier == _generate_code_verifier(c, obs[c].nPkce + 1)
            code_challenge == _generate_code_challenge(code_verifier)
            form_action == _extract_form_action(a.text)
        IN  /\ obs' = [obs EXCEPT ![c] = [Answer(Sent(@, LoginPageRequest), a.status) EXCEPT
                                                !.nPkce = @ + 1, !.lg.nPage = @ + 1,
                                                !.challenges = Append(@, code_challenge),
                                                !.lg.page = a.status,
                                                !.lg.form = (a.status = 200 /\ HasPostForm(a.text))]]
            /\ th' = [th EXCEPT ![c] =
                        IF a.status = TransportFailure THEN Raise(t, "TransportError")
                        ELSE IF LoginPageFailed(a.status) THEN Raise(t, "AuthenticationError")
                        ELSE IF form_action = None THEN Raise(t, "AuthenticationError")
                        ELSE [t EXCEPT !.pc = "pk_post", !.form_action = form_action,
                                       !.code_verifier = code_verifier]]
    /\ UNCHANGED <<tokens, now, ticks, issued, http>>

\* a variant that goes on to the next GET also when the header is missing
FollowAnyLocation(t, location) ==
    LET code == _extract_code_from_redirect(location)
    IN  IF code # None THEN [DropLocals(t) EXCEPT !.pc = "pk_exchange", !.code = code,
                                                  !.code_verifier = t.code_verifier]
        ELSE [t EXCEPT !.pc = "pk_walk", !.location = location, !.form_action = None]

\* where the flow goes once a redirect's Location is known: to the token
\* exchange when it carries a code, to the next GET of the redirect walk when
\* it is another URL, and to the raise when the header is missing.  Only the
\* locals that are read again are kept.
Follow(t, location) ==
    LET code == _extract_code_from_redirect(location)
    IN  IF code # None THEN [DropLocals(t) EXCEPT !.pc = "pk_exchange", !.code = code,
                                                  !.code_verifier = t.code_verifier]
        ELSE IF location = LocEmpty THEN Raise(t, "AuthenticationError")
        ELSE [t EXCEPT !.pc = "pk_walk", !.location = location, !.form_action = None]

\* the credential POST, and the look at its Location header (by the flow and
\* again by the first iteration of _follow_redirects_for_code)
PkcePostCredentials(c) ==
    /\ th[c].pc = "pk_post"
    /\ \E a \in CredentialAnswers :
        LET t == th[c]
        IN  /\ obs' = [obs EXCEPT ![c] = [Answer(Sent(@, CredentialRequest(t.form_action)), a.status) EXCEPT
                                                !.lg.nCred = @ + 1,
                                                !.lg.redirected = (a.status \in {302, 303}),
                                                !.lg.loc = a.location]]
            /\ th' = [th EXCEPT ![c] =
                        IF a.status = TransportFailure THEN Raise(t, "TransportError")
                        ELSE IF NotRedirected(a.status) THEN Raise(t, "AuthenticationError")
                        ELSE Follow([t EXCEPT !.hops = 0], a.location)]
    /\ UNCHANGED <<tokens, now, ticks, issued, http>>

\* the GET of one iteration of the loop, the status check that ends the
\* iteration and, unless the loop is over, the next iteration's look at the
\* Location header; a result of None makes the flow raise
_follow_redirects_for_code(c) ==
    /\ th[c].pc = "pk_walk"
    /\ \E a \in WalkAnswers :
        LET t == th[c]
        IN  /\ obs' = [obs EXCEPT ![c] = [Answer(Sent(@, RedirectRequest(t.location)), a.status) EXCEPT
                                                !.lg.stopped = (a.status \notin {301, 302, 303, 307, 308}),
                                                !.lg.loc = a.location]]
            /\ th' = [th EXCEPT ![c] =
                        IF a.status = TransportFailure THEN Raise(t, "TransportError")
                        ELSE IF WalkStops(a.status) THEN Raise(t, "AuthenticationError")
                        ELSE IF t.hops + 1 >= MAX_REDIRECTS THEN Raise(t, "AuthenticationError")
                        ELSE Follow([t EXCEPT !.hops = @ + 1], a.location)]
    /\ UNCHANGED <<tokens, now, ticks, issued, http>>

PkceTokenExchange(c) ==
    /\ th[c].pc = "pk_exchange"
    /\ \E a \in TokenAnswers :
        LET t == th[c]
            o == [Answer(Sent(obs[c], ExchangeRequest), a.status) EXCEPT !.lg.nExch = @ + 1,
                                                                        !.lg.exch = a.status,
                                                                        !.lg.verifier = t.code_verifier]
        IN  /\ issued' = Issue(a)
            /\ IF a.status = TransportFailure \/ ExchangeFailed(a.status) \/ ~HasTokens(a.body)
               THEN /\ th' = [th EXCEPT ![c] =
                                IF a.status = TransportFailure THEN Raise(t, "TransportError")
                                ELSE IF ExchangeFailed(a.status) THEN Raise(t, "AuthenticationError")
                                ELSE Raise(t, "KeyError")]
                    /\ obs' = [obs EXCEPT ![c] = o]
                    /\ UNCHANGED tokens
               ELSE /\ tokens' = _store_tokens(a.body, now)
                    /\ th' = [th EXCEPT ![c] = Return(t, 0)]
                    /\ obs' = [obs EXCEPT ![c] = LoginStored(o, a.body)]
    /\ UNCHANGED <<now, ticks, http>>

(***************************************************************************)
(* HyperopticAuth._refresh                                                 *)
(***************************************************************************)
\* a variant that forgets the held TokenSet when the refresh POST fails
_refreshForgetsOnFailure(c) ==
    /\ th[c].pc = "rf_post"
    /\ IF ~tokens.held
       THEN /\ th' = [th EXCEPT ![c] = Raise(th[c], "AssertionError")]
            /\ UNCHANGED <<tokens, issued, obs>>
       ELSE \E a \in TokenAnswers :
            LET t == th[c]
                req == RefreshRequest(tokens)
                o == [Answer(Sent(obs[c], req), a.status) EXCEPT !.nRefresh = @ + 1, !.rfSent = req.token,
                                               !.rfHeld = tokens.refresh_token, !.rfAt = obs[c].nLogin,
                                               !.rfStatus = a.status, !.rfBody = a.body]
            IN  /\ issued' = Issue(a)
                /\ IF a.status = TransportFailure \/ RefreshFailed(a.status) \/ ~HasTokens(a.body)
                   THEN /\ th' = [th EXCEPT ![c] =
                                    IF a.status = TransportFailure THEN Raise(t, "TransportError")
                                    ELSE IF RefreshFailed(a.status) THEN [t EXCEPT !.pc = "login"]
                                    ELSE Raise(t, "KeyError")]
                        /\ obs' = [obs EXCEPT ![c] = o]
                        /\ tokens' = NoTokenSet
                   ELSE /\ tokens' = _store_tokens(a.body, now)
                        /\ th' = [th EXCEPT ![c] = Return(t, 0)]
                        /\ obs' = [obs EXCEPT ![c] = o]
    /\ UNCHANGED <<now, ticks, http>>

_refresh(c) ==
    /\ th[c].pc = "rf_post"
    /\ IF ~tokens.held
       THEN /\ th' = [th EXCEPT ![c] = Raise(th[c], "AssertionError")]
            /\ UNCHANGED <<tokens, issued, obs>>
       ELSE \E a \in TokenAnswers :
            LET t == th[c]
                req == RefreshRequest(tokens)
                o == [Answer(Sent(obs[c], req), a.status) EXCEPT !.nRefresh = @ + 1, !.rfSent = req.token,
                                               !.rfHeld = tokens.refresh_token, !.rfAt = obs[c].nLogin,
                                               !.rfStatus = a.status, !.rfBody = a.body]
            IN  /\ issued' = Issue(a)
                /\ IF a.status = TransportFailure \/ RefreshFailed(a.status) \/ ~HasTokens(a.body)
                   THEN /\ th' = [th EXCEPT ![c] =
                                    IF a.status = TransportFailure THEN Raise(t, "TransportError")
                                    ELSE IF RefreshFailed(a.status) THEN [t EXCEPT !.pc = "login"]
                                    ELSE Raise(t, "KeyError")]
                        /\ obs' = [obs EXCEPT ![c] = o]
                        /\ UNCHANGED tokens
                   ELSE /\ tokens' = _store_tokens(a.body, now)
                        /\ th' = [th EXCEPT ![c] = Return(t, 0)]
                        /\ obs' = [obs EXCEPT ![c] = o]
    /\ UNCHANGED <<now, ticks, http>>

(***************************************************************************)
(* HyperopticAuth.access_token (and authorization_header, which wraps it)  *)
(***************************************************************************)
\* a variant that starts no login of its own while another caller is inside
\* one
AccessTokenEnterSerialized(c) ==
    /\ th[c].pc = "at_start"
    /\ th' = [th EXCEPT ![c] =
                IF ~tokens.held /\ \A d \in Callers \ {c} : th[d].pc \notin {"login", "pw_grant", "pk_auth",
                                                                            "pk_post", "pk_walk", "pk_exchange"}
                THEN Call(th[c], "login", "at_check")
                ELSE [th[c] EXCEPT !.pc = "at_check"]]
    /\ UNCHANGED <<tokens, now, ticks, issued, obs, http>>

AccessTokenEnter(c) ==
    /\ th[c].pc = "at_start"
    /\ th' = [th EXCEPT ![c] = IF ~tokens.held THEN Call(th[c], "login", "at_check")
                               ELSE [th[c] EXCEPT !.pc = "at_check"]]
    /\ UNCHANGED <<tokens, now, ticks, issued, obs, http>>

AccessTokenCheck(c) ==
    /\ th[c].pc = "at_check"
    /\ th' = [th EXCEPT ![c] =
                IF ~tokens.held THEN Raise(th[c], "AssertionError")
                ELSE IF Renewal(tokens, now) = "at_ret" THEN [th[c] EXCEPT !.pc = "at_ret"]
                ELSE Call(th[c], Renewal(tokens, now), "at_ret")]
    /\ UNCHANGED <<tokens, now, ticks, issued, obs, http>>

AccessTokenReturn(c) ==
    /\ th[c].pc = "at_ret"
    /\ th' = [th EXCEPT ![c] = Return(th[c], tokens.access_token)]
    /\ UNCHANGED <<tokens, now, ticks, issued, obs, http>>

(***************************************************************************)
(* HyperopticClient._request                                               *)
(***************************************************************************)
APIError(status_code, url) ==
    [NoResult EXCEPT !.kind = "raise", !.exc = "APIError", !.status_code = status_code, !.url = url]

\* the record of one resource round trip: its answer, the bearer token it
\* carried, the access token held when it was sent, the logins and
\* refreshes of the call so far, and the path requested
Exchange(o, status) ==
    [o EXCEPT !.res = @ \o << [status |-> status, bearer |-> o.req.token, held |-> tokens.access_token,
                               nLogin |-> o.nLogin, nRefresh |-> o.nRefresh, path |-> o.req.url] >>]

RequestSend(c) ==
    /\ th[c].pc = "rq_send1"
    /\ \E a \in ResourceAnswers :
        LET t == th[c]
        IN  /\ obs' = [obs EXCEPT ![c] = Exchange(Sent(@, ResourceRequest(t.path, t.retval)), a.status)]
            /\ th' = [th EXCEPT ![c] =
                        IF a.status = TransportFailure THEN Raise(t, "TransportError")
                        ELSE IF Unauthorized(a.status) THEN Call(t, "login", "rq_hdr2")
                        ELSE IF IsError(a.status) THEN RaiseError(t, APIError(a.status, t.path))
                        ELSE Return(t, 1)]
    /\ UNCHANGED <<tokens, now, ticks, issued, http>>

RequestReauthenticated(c) ==
    /\ th[c].pc = "rq_hdr2"
    /\ th' = [th EXCEPT ![c] = Call(th[c], "at_start", "rq_send2")]
    /\ UNCHANGED <<tokens, now, ticks, issued, obs, http>>

\* a variant that sends the retry with the headers of the first attempt
RequestRetryStaleHeaders(c) ==
    /\ th[c].pc = "rq_send2"
    /\ \E a \in ResourceAnswers :
        LET t == th[c]
            bearer == obs[c].res[1].bearer
        IN  /\ obs' = [obs EXCEPT ![c] = Exchange(Sent(@, ResourceRequest(t.path, bearer)), a.status)]
            /\ th' = [th EXCEPT ![c] =
                        IF a.status = TransportFailure THEN Raise(t, "TransportError")
                        ELSE IF IsError(a.status) THEN RaiseError(t, APIError(a.status, t.path))
                        ELSE Return(t, 1)]
    /\ UNCHANGED <<tokens, now, ticks, issued, http>>

RequestRetry(c) ==
    /\ th[c].pc = "rq_send2"
    /\ \E a \in ResourceAnswers :
        LET t == th[c]
        IN  /\ obs' = [obs EXCEPT ![c] = Exchange(Sent(@, ResourceRequest(t.path, t.retval)), a.status)]
            /\ th' = [th EXCEPT ![c] =
                        IF a.status = TransportFailure THEN Raise(t, "TransportError")
                        ELSE IF IsError(a.status) THEN RaiseError(t, APIError(a.status, t.path))
                        ELSE Return(t, 1)]
    /\ UNCHANGED <<tokens, now, ticks, issued, http>>

(***************************************************************************)
(* The caller: it invokes an operation, and takes its result.              *)
(***************************************************************************)
CallAccessToken(c) ==
    /\ th[c].pc = "idle"
    /\ th' = [th EXCEPT ![c] = Thread("at_start")]
    /\ obs' = [obs EXCEPT ![c] = Observation("access_token")]
    /\ UNCHANGED <<tokens, now, ticks, issued, http>>

CallLogin(c) ==
    /\ th[c].pc = "idle"
    /\ th' = [th EXCEPT ![c] = Thread("login")]
    /\ obs' = [obs EXCEPT ![c] = Observation("login")]
    /\ UNCHANGED <<tokens, now, ticks, issued, http>>

\* a variant in which _request sends its first attempt without asking the
\* Auth Manager for a token
CallRequestWithoutToken(c) ==
    /\ th[c].pc = "idle"
    /\ \E path \in Paths :
        th' = [th EXCEPT ![c] = [Thread("rq_send1") EXCEPT !.path = path]]
    /\ obs' = [obs EXCEPT ![c] = Observation("request")]
    /\ UNCHANGED <<tokens, now, ticks, issued, http>>

CallRequest(c) ==
    /\ th[c].pc = "idle"
    /\ \E path \in Paths :
        th' = [th EXCEPT ![c] = [Thread("at_start") EXCEPT !.stack = <<"rq_send1">>, !.path = path]]
    /\ obs' = [obs EXCEPT ![c] = Observation("request")]
    /\ UNCHANGED <<tokens, now, ticks, issued, http>>

ReturnToCaller(c) ==
    /\ th[c].pc = "done"
    /\ th' = [th EXCEPT ![c] = Thread("idle")]
    /\ obs' = [obs EXCEPT ![c] = NoObservation]
    /\ UNCHANGED <<tokens, now, ticks, issued, http>>

(***************************************************************************)
(* The clock.                                                              *)
(***************************************************************************)
Blocked == {"off", "idle", "pw_grant", "pk_auth", "pk_post", "pk_walk", "pk_exchange",
            "rf_post", "rq_send1", "rq_send2"}

\* a variant with a background task that refreshes an expired TokenSet
TickWithBackgroundRefresh ==
    /\ ticks < MaxTicks
    /\ \A c \in Callers : th[c].pc \in Blocked
    /\ \E d \in TickSteps : now' = now + d
    /\ ticks' = ticks + 1
    /\ IF tokens.held /\ access_expired(tokens, now') /\ issued < MaxIssued
       THEN /\ tokens' = _store_tokens([NoBody EXCEPT !.access_token = issued + 1,
                                                       !.refresh_token = 1001 + issued], now')
            /\ issued' = issued + 1
       ELSE UNCHANGED <<tokens, issued>>
    /\ UNCHANGED <<th, obs, http>>

Tick ==
    /\ ticks < MaxTicks
    /\ \A c \in Callers : th[c].pc \in Blocked
    /\ \E d \in TickSteps : now' = now + d
    /\ ticks' = ticks + 1
    /\ UNCHANGED <<tokens, issued, th, obs, http>>

Next ==
    \/ \E c \in Callers :
        \/ CallAccessToken(c)
        \/ CallLogin(c)
        \/ CallRequest(c)
        \/ ReturnToCaller(c)
        \/ AccessTokenEnter(c)
        \/ AccessTokenCheck(c)
        \/ AccessTokenReturn(c)
        \/ login(c)
        \/ _login_password_grant(c)
        \/ PkceLoginPage(c)
        \/ PkcePostCredentials(c)
        \/ _follow_redirects_for_code(c)
        \/ PkceTokenExchange(c)
        \/ _refresh(c)
        \/ RequestSend(c)
        \/ RequestReauthenticated(c)
        \/ RequestRetry(c)
    \/ Tick

Spec == Init /\ [][Next]_vars

(***************************************************************************)
(* Two callers on one HyperopticAuth: caller 1 reads access_token once,    *)
(* caller 2 calls login() once, and their statement groups interleave in   *)
(* any order.  The clock stands still; a token answer with expires_in 20   *)
(* gives a TokenSet that is expired on arrival, so caller 1 refreshes or   *)
(* logs in again while caller 2 is inside its login.                       *)
(***************************************************************************)
InitConcurrent ==
    /\ tokens = NoTokenSet
    /\ now = 0
    /\ ticks = 0
    /\ issued = 0
    /\ th = [c \in Callers |-> Thread("idle")]
    /\ obs = [c \in Callers |-> NoObservation]
    /\ http = [client |-> "open", auth |-> "open"]

NextConcurrent ==
    \/ CallAccessToken(1)
    \/ CallLogin(2)
    \/ \E c \in Callers :
        \/ AccessTokenEnter(c)
        \/ AccessTokenCheck(c)
        \/ AccessTokenReturn(c)
        \/ login(c)
        \/ _login_password_grant(c)
        \/ PkceLoginPage(c)
        \/ PkcePostCredentials(c)
        \/ _follow_redirects_for_code(c)
        \/ PkceTokenExchange(c)
        \/ _refresh(c)

SpecConcurrent == InitConcurrent /\ [][NextConcurrent]_vars

(***************************************************************************)
(* TokenSet used directly, as src/tests/test_auth.py does: a caller builds *)
(* a TokenSet, with or without explicit timestamps, lets time pass and     *)
(* reads the two expiry properties.                                        *)
(***************************************************************************)
\* expires_in / refresh_expires_in passed to the constructor (300 and 1800
\* are the dataclass defaults)
ExpiresInArgs == {20, 30, 31, DEFAULT_EXPIRES_IN}
RefreshExpiresInArgs == {31, DEFAULT_REFRESH_EXPIRES_IN}
\* _expires_at / _refresh_expires_at passed to the constructor, in seconds
\* from the time of the call; the dataclass default 0.0 means not passed
ExpiresAtArgs == {0} \cup {now + d : d \in {-10, 30, 31, 330}}
RefreshExpiresAtArgs == {0} \cup {now + d : d \in {30, 1830}}

InitTokenSet ==
    /\ tokens = NoTokenSet
    /\ now = 1000
    /\ ticks = 0
    /\ issued = 0
    /\ th = [c \in Callers |-> Thread(IF c = 1 THEN "idle" ELSE "off")]
    /\ obs = [c \in Callers |-> NoObservation]
    /\ http = [client |-> "open", auth |-> "open"]

\* the outcome of a direct call that returned val
Direct(arg, val) ==
    [Thread("done") EXCEPT !.arg = arg, !.result = [NoResult EXCEPT !.kind = "return", !.val = val]]

ConstructTokenSet(c) ==
    /\ th[c].pc = "idle"
    /\ \E e \in ExpiresInArgs, r \in RefreshExpiresInArgs,
          ea \in ExpiresAtArgs, ra \in RefreshExpiresAtArgs :
        /\ tokens' = TokenSet(1, 1001, e, r, ea, ra, now)
        /\ th' = [th EXCEPT ![c] = Direct([expires_in |-> e, refresh_expires_in |-> r,
                                            expires_at |-> ea, refresh_expires_at |-> ra], 0)]
    /\ obs' = [obs EXCEPT ![c] = Observation("TokenSet")]
    /\ UNCHANGED <<now, ticks, issued, http>>

ReadAccessExpired(c) ==
    /\ th[c].pc = "idle"
    /\ tokens.held
    /\ th' = [th EXCEPT ![c] = Direct(<< >>, access_expired(tokens, now))]
    /\ obs' = [obs EXCEPT ![c] = Observation("access_expired")]
    /\ UNCHANGED <<tokens, now, ticks, issued, http>>

ReadRefreshExpired(c) ==
    /\ th[c].pc = "idle"
    /\ tokens.held
    /\ th' = [th EXCEPT ![c] = Direct(<< >>, refresh_expired(tokens, now))]
    /\ obs' = [obs EXCEPT ![c] = Observation("refresh_expired")]
    /\ UNCHANGED <<tokens, now, ticks, issued, http>>

NextTokenSet ==
    \/ ConstructTokenSet(1)
    \/ ReadAccessExpired(1)
    \/ ReadRefreshExpired(1)
    \/ ReturnToCaller(1)
    \/ Tick

SpecTokenSet == InitTokenSet /\ [][NextTokenSet]_vars

(***************************************************************************)
(* _extract_form_action called directly on a document.  The documents are  *)
(* the login pages, every single tag with up to MaxAttrs attributes of     *)
(* different names, and every pair of the login pages' tags.               *)
(***************************************************************************)
MaxAttrs == 3

TagNames == {"form", "FORM", "div"}
AttrPool == {Attr("action", KcActionRaw), Attr("ACTION", OtherAction),
             Attr("method", "post"), Attr("METHOD", "POST"), Attr("method", "get"),
             Attr("data-method", "post"), Attr("data-action", OtherAction),
             Attr("id", "kc-form-login")}

AttrLists ==
    {s \in UNION {[1..n -> AttrPool] : n \in 0..MaxAttrs} :
        \A i, j \in DOMAIN s : i # j => Lower(s[i].n) # Lower(s[j].n)}

PageTags == UNION {{p[k] : k \in DOMAIN p} : p \in LoginPages}

Documents ==
    LoginPages
    \cup {<< [name |-> n, attrs |-> s] >> : n \in TagNames, s \in AttrLists}
    \cup {<<t1, t2>> : t1 \in PageTags, t2 \in PageTags}

ExtractFormAction(c) ==
    /\ th[c].pc = "idle"
    /\ \E html \in Documents :
        th' = [th EXCEPT ![c] = Direct(html, _extract_form_action(html))]
    /\ obs' = [obs EXCEPT ![c] = Observation("_extract_form_action")]
    /\ UNCHANGED <<tokens, now, ticks, issued, http>>

NextFormAction ==
    \/ ExtractFormAction(1)
    \/ ReturnToCaller(1)

SpecFormAction == Init /\ [][NextFormAction]_vars

(***************************************************************************)
(* Properties.  They speak of caller 1, the only caller of Spec, through   *)
(* its position and the observation of its current call.                   *)
(***************************************************************************)
Done(c) == th[c].pc = "done"
Returned(c) == Done(c) /\ th[c].result.kind = "return"
Raised(c) == Done(c) /\ th[c].result.kind = "raise"
\* an answer with a status, as opposed to none yet or a transport failure
Answered(status) == status \notin {Absent, TransportFailure}
\* the lifetime a stored body gives the access token
Lifetime(body) == Get(body.expires_in, DEFAULT_EXPIRES_IN)
\* the held TokenSet is the one built, at the present time, from body
BuiltFrom(body) ==
    /\ tokens.held
    /\ tokens.access_token = body.access_token
    /\ tokens.refresh_token = body.refresh_token
    /\ tokens.expires_at = now + (IF body.expires_in = Absent THEN 300 ELSE body.expires_in)
    /\ tokens.refresh_expires_at =
          now + (IF body.refresh_expires_in = Absent THEN 1800 ELSE body.refresh_expires_in)

\* C1: whenever access_token returns, the token it returns is the access
\* token of the held TokenSet and that TokenSet is not access_expired at the
\* moment of return, whatever lifetimes the token answers carried.
C1_ReturnedTokenNotExpired ==
    \A c \in Callers :
        (Returned(c) /\ obs[c].op = "access_token")
            => /\ tokens.held
               /\ th[c].result.val = tokens.access_token
               /\ ~access_expired(tokens, now)

\* C2 as stated: a call of access_token that starts in AccessExpired sends
\* exactly one refresh POST, carrying the held refresh token; if it answers
\* 200 the TokenSet built from the answer is held, its access token is
\* returned, and the call makes no login.
C2_RefreshOn200 ==
    \A c \in Callers :
        (Done(c) /\ obs[c].op = "access_token" /\ obs[c].entry = "AccessExpired")
            => /\ obs[c].nRefresh = 1
               /\ obs[c].rfSent = obs[c].rfHeld
               /\ obs[c].rfStatus = 200
                    => /\ BuiltFrom(obs[c].rfBody)
                       /\ Returned(c)
                       /\ th[c].result.val = obs[c].rfBody.access_token
                       /\ obs[c].nLogin = 0 /\ obs[c].nPw = 0 /\ obs[c].nPkce = 0

\* C2 amended: the same, for a 200 answer whose body carries both an
\* access_token and a refresh_token; a 200 answer that lacks one of them
\* makes the call raise KeyError with the held TokenSet unchanged and without
\* any login.
C2_RefreshOnTokens ==
    \A c \in Callers :
        (Done(c) /\ obs[c].op = "access_token" /\ obs[c].entry = "AccessExpired")
            => /\ obs[c].nRefresh = 1
               /\ obs[c].rfSent = obs[c].rfHeld
               /\ (obs[c].rfStatus = 200 /\ HasTokens(obs[c].rfBody))
                    => /\ BuiltFrom(obs[c].rfBody)
                       /\ Returned(c)
                       /\ th[c].result.val = obs[c].rfBody.access_token
                       /\ obs[c].nLogin = 0 /\ obs[c].nPw = 0 /\ obs[c].nPkce = 0
               /\ (obs[c].rfStatus = 200 /\ ~HasTokens(obs[c].rfBody))
                    => /\ Raised(c) /\ th[c].result.exc = "KeyError"
                       /\ obs[c].nLogin = 0
                       /\ tokens.refresh_token = obs[c].rfHeld

C2_Witness ==
    /\ Returned(1) /\ obs[1].op = "access_token" /\ obs[1].entry = "AccessExpired"
    /\ obs[1].rfStatus = 200 /\ th[1].result.val = obs[1].rfBody.access_token

\* C3: a call of access_token that starts in FullyExpired makes one login
\* and sends no refresh POST; a call that starts Unauthenticated makes a
\* login before anything else.
C3_FullyExpiredLogsIn ==
    \A c \in Callers :
        obs[c].op = "access_token"
            => /\ obs[c].entry = "FullyExpired"
                    => /\ obs[c].nRefresh = 0
                       /\ obs[c].nLogin <= 1
                       /\ th[c].pc \notin {"rf_post"}
                       /\ (Done(c) \/ th[c].pc = "at_ret") => obs[c].nLogin = 1
               /\ obs[c].entry = "Unauthenticated"
                    => /\ (Done(c) \/ th[c].pc \in {"at_check", "at_ret", "rf_post"}) => obs[c].nLogin >= 1
                       /\ obs[c].nRefresh > 0 => obs[c].rfAt >= 1

C3_Witness ==
    /\ Returned(1) /\ obs[1].op = "access_token" /\ obs[1].entry = "FullyExpired"
    /\ obs[1].nLogin = 1 /\ obs[1].nPw = 1

\* C4 as stated: a call of access_token on a manager that holds no TokenSet
\* makes exactly one login, hence one password grant, and returns the access
\* token that login stored, whatever the token answer.
C4_OneLoginAlways ==
    \A c \in Callers :
        (Done(c) /\ obs[c].op = "access_token" /\ obs[c].entry = "Unauthenticated")
            => /\ obs[c].nLogin = 1
               /\ obs[c].nPw = 1
               /\ Returned(c) => th[c].result.val = obs[c].first.access_token

\* C4 amended: it makes exactly one login and returns that login's token
\* when the login fails or its token answer gives expires_in > 30 (or omits
\* it); when the answer gives expires_in <= 30 the call goes on to one
\* refresh POST (refresh_expires_in > 30) or a second login.
C4_OneLoginUnlessShortLived ==
    \A c \in Callers :
        (Done(c) /\ obs[c].op = "access_token" /\ obs[c].entry = "Unauthenticated")
            => /\ (~HasTokens(obs[c].first) \/ Lifetime(obs[c].first) > 30)
                    => /\ obs[c].nLogin = 1
                       /\ obs[c].nPw = 1
                       /\ obs[c].nRefresh = 0
                       /\ Returned(c) => /\ th[c].result.val = obs[c].first.access_token
                                         /\ BuiltFrom(obs[c].first)
               /\ (HasTokens(obs[c].first) /\ Lifetime(obs[c].first) <= 30)
                    => IF Get(obs[c].first.refresh_expires_in, DEFAULT_REFRESH_EXPIRES_IN) > 30
                       THEN obs[c].nRefresh = 1 /\ obs[c].rfAt = 1
                       ELSE obs[c].nRefresh = 0 /\ obs[c].nLogin = 2

C4_Witness ==
    /\ Returned(1) /\ obs[1].op = "access_token" /\ obs[1].entry = "Unauthenticated"
    /\ obs[1].nLogin = 1 /\ obs[1].first.expires_in = Absent
    /\ th[1].result.val = obs[1].first.access_token

LoginPcs == {"pw_grant", "pk_auth", "pk_post", "pk_walk", "pk_exchange"}
PkcePcs == {"pk_auth", "pk_post", "pk_walk", "pk_exchange"}

\* C5: in every login the password grant is the first request and is sent
\* once; the PKCE flow is started exactly when the password grant was
\* answered with a status other than 200.
C5_PasswordGrantThenPkce ==
    \A c \in Callers :
        LET L == obs[c].lg
            pkce == L.nPage > 0 \/ th[c].pc \in PkcePcs
        IN  /\ L.nPw <= 1 /\ L.nPage <= 1
            /\ L.nPw = 0 => (L.nPage = 0 /\ L.nCred = 0 /\ L.nExch = 0 /\ L.pw = Absent)
            /\ L.nPw = 0 => th[c].pc \notin PkcePcs
            /\ pkce => (L.nPw = 1 /\ Answered(L.pw) /\ L.pw # 200)
            /\ (Answered(L.pw) /\ L.pw # 200) => pkce
            /\ L.pw = 200 => ~pkce
            /\ (L.nCred > 0 \/ L.nExch > 0) => L.nPage = 1

C5_Witness ==
    /\ obs[1].lg.pw = 201 /\ obs[1].lg.nPw = 1 /\ obs[1].lg.nPage = 1
    /\ HasTokens(obs[1].lg.body) /\ Done(1)

\* C6: a refresh POST answered with a status other than 200 raises nothing:
\* the call goes on to one login; access_token returns the access token that
\* login stored, and raises only when that login raised.
C6_RefreshFallsBackToLogin ==
    \A c \in Callers :
        (Answered(obs[c].rfStatus) /\ obs[c].rfStatus # 200)
            => /\ th[c].pc = "login" \/ obs[c].nLogin >= obs[c].rfAt + 1
               /\ (th[c].pc = "login" /\ obs[c].op = "access_token") => obs[c].nLogin = obs[c].rfAt
               /\ (Done(c) /\ obs[c].op = "access_token")
                    => /\ obs[c].nLogin = obs[c].rfAt + 1
                       /\ obs[c].nRefresh = 1
                       /\ Returned(c) => /\ HasTokens(obs[c].lg.body)
                                         /\ th[c].result.val = obs[c].lg.body.access_token
                                         /\ BuiltFrom(obs[c].lg.body)
                       /\ Raised(c) => /\ ~HasTokens(obs[c].lg.body)
                                       /\ obs[c].req.kind # "refresh"
                                       /\ th[c].result.exc \in {"AuthenticationError", "TransportError", "KeyError"}

C6_Witness ==
    /\ Returned(1) /\ obs[1].op = "access_token" /\ obs[1].entry = "AccessExpired"
    /\ obs[1].rfStatus = 400 /\ obs[1].nLogin = 1
    /\ th[1].result.val = obs[1].lg.body.access_token

\* the logins and refreshes a request call made after its first round trip
LoginsAfter401(o) == o.nLogin - o.res[1].nLogin
RefreshesAfter401(o) == o.nRefresh - o.res[1].nRefresh

C8_NoRetryUnless401 ==
    \A c \in Callers :
        LET o == obs[c] IN
        /\ Len(o.res) <= 2
        /\ Len(o.res) = 2 => o.res[1].status = 401
        /\ (Len(o.res) >= 1 /\ o.res[1].status # 401)
              => /\ Done(c)
                 /\ o.req.kind = "resource"
                 /\ LoginsAfter401(o) = 0 /\ RefreshesAfter401(o) = 0
        /\ (Len(o.res) >= 1 /\ o.res[1].status >= 400 /\ o.res[1].status # 401)
              => /\ Len(o.res) = 1
                 /\ Raised(c)
                 /\ th[c].result.exc = "APIError"
                 /\ th[c].result.status_code = o.res[1].status
                 /\ th[c].result.url = o.req.url

C8_Witness ==
    /\ Raised(1) /\ obs[1].op = "request" /\ Len(obs[1].res) = 1
    /\ obs[1].res[1].status = 404 /\ th[1].result.status_code = 404
    /\ th[1].result.url = "/customers"

\* C9 as stated: every resource request carries as bearer the access token
\* of the TokenSet held when it is sent, and the retry after a 401 carries
\* the token the re-login stored, never the rejected one.
C9_RetryCarriesReloginToken ==
    \A c \in Callers :
        LET o == obs[c] IN
        /\ \A i \in DOMAIN o.res : o.res[i].bearer = o.res[i].held
        /\ Len(o.res) = 2
              => /\ o.res[2].bearer = o.relogin.access_token
                 /\ o.res[2].bearer # o.res[1].bearer

\* C9 amended: every resource request carries as bearer the access token of
\* the TokenSet held when it is sent; the retry after a 401 carries a token
\* stored after the 401, never the rejected one: the re-login's token when
\* no further login or refresh preceded the retry, and otherwise the token
\* of the renewal that followed a re-login whose answer gave expires_in <= 30.
C9_BearerIsHeldToken ==
    \A c \in Callers :
        LET o == obs[c] IN
        /\ \A i \in DOMAIN o.res :
              /\ o.res[i].bearer = o.res[i].held
              /\ o.res[i].bearer >= 1
        /\ Len(o.res) = 2
              => /\ o.res[2].bearer # o.res[1].bearer
                 /\ o.res[2].bearer > o.res[1].bearer
                 /\ HasTokens(o.relogin)
                 /\ o.res[2].bearer >= o.relogin.access_token
                 /\ (o.res[2].nLogin = o.res[1].nLogin + 1 /\ o.res[2].nRefresh = o.res[1].nRefresh)
                        => o.res[2].bearer = o.relogin.access_token
                 /\ o.res[2].bearer # o.relogin.access_token => Lifetime(o.relogin) <= 30

C9_Witness ==
    /\ Len(obs[1].res) = 2 /\ obs[1].res[1].status = 401
    /\ obs[1].res[2].bearer = obs[1].relogin.access_token
    /\ obs[1].res[2].bearer = obs[1].res[2].held
    /\ obs[1].res[2].bearer # obs[1].res[1].bearer

\* the form actions the login pages of the model carry
FormActions == {_extract_form_action(p) : p \in LoginPages} \ {None}

\* C10 as stated: every request that carries the password is addressed to
\* the token endpoint or to the authorization endpoint.
C10_PasswordOnlyToFixedEndpoints ==
    \A c \in Callers :
        "password" \in obs[c].req.fields => obs[c].req.url \in {TOKEN_URL, AUTH_URL}

\* C10 amended: the password is carried only by the password-grant POST,
\* addressed to the token endpoint, and by the credential POST, addressed to
\* the form action extracted from the login page the server supplied; the
\* login-page GET, the redirect GETs, the code exchange, the refresh POST and
\* the resource requests never carry it.
C10_PasswordOnlyInGrantAndForm ==
    \A c \in Callers :
        LET r == obs[c].req IN
        /\ "password" \in r.fields
              => \/ r.kind = "password_grant" /\ r.url = TOKEN_URL
                 \/ r.kind = "credentials" /\ r.url \in FormActions /\ obs[c].lg.nPage = 1
        /\ r.kind \in {"login_page", "redirect", "exchange", "refresh", "resource"}
              => "password" \notin r.fields
        /\ r.kind = "login_page" => r.url = AUTH_URL
        /\ r.kind \in {"exchange", "refresh"} => r.url = TOKEN_URL

C10_Witness ==
    /\ obs[1].req.kind = "credentials" /\ "password" \in obs[1].req.fields
    /\ obs[1].req.url = OtherAction

\* the statements still ahead of a position: those of its own frame from the
\* position on, and those of the calls it can still make
Work(pc, hops) ==
    CASE pc = "at_ret" -> 1
      [] pc = "pk_exchange" -> 3
      [] pc = "pk_walk" -> 8 - hops
      [] pc = "pk_post" -> 9
      [] pc = "pk_auth" -> 10
      [] pc = "pw_grant" -> 11
      [] pc = "login" -> 12
      [] pc = "rf_post" -> 14
      [] pc = "at_check" -> 30
      [] pc = "at_start" -> 50
      [] pc = "rq_send2" -> 1
      [] pc = "rq_hdr2" -> 52
      [] pc = "rq_send1" -> 65
      [] OTHER -> 0

RECURSIVE StackWork(_)
StackWork(stack) == IF stack = << >> THEN 0 ELSE Work(Head(stack), 0) + StackWork(Tail(stack))

Rank(t) == Work(t.pc, t.hops) + StackWork(t.stack)

InCall(c) == th[c].pc \notin {"off", "idle", "done"}

\* one statement group of the library run by caller c
LibraryStep(c) ==
    \/ AccessTokenEnter(c) \/ AccessTokenCheck(c) \/ AccessTokenReturn(c)
    \/ login(c) \/ _login_password_grant(c)
    \/ PkceLoginPage(c) \/ PkcePostCredentials(c) \/ _follow_redirects_for_code(c)
    \/ PkceTokenExchange(c) \/ _refresh(c)
    \/ RequestSend(c) \/ RequestReauthenticated(c) \/ RequestRetry(c)

\* logins and refreshes of the access_token invocation that is running, or
\* ran last, in the call of caller c: a call of access_token is one
\* invocation; an API request invokes it for the first attempt and, after the
\* client's own re-login, for the retry
InvocationLogins(o) == IF Len(o.res) = 0 THEN o.nLogin ELSE o.nLogin - o.res[1].nLogin - 1
InvocationRefreshes(o) == IF Len(o.res) = 0 THEN o.nRefresh ELSE o.nRefresh - o.res[1].nRefresh

\* C11: every invocation of access_token makes at most two logins and sends
\* at most one refresh POST, whatever the server answers, and it terminates:
\* inside a call the caller can always take a step, and every step lowers a
\* natural-number rank, so a call ends within 115 steps.
C11_BoundedRenewal ==
    /\ [](\A c \in Callers :
            /\ obs[c].op \in {"access_token", "request"}
                  => /\ InvocationLogins(obs[c]) <= 2
                     /\ InvocationRefreshes(obs[c]) <= 1
            /\ Rank(th[c]) \in 0..115
            /\ InCall(c) => (Rank(th[c]) > 0 /\ ENABLED LibraryStep(c)))
    /\ [][\A c \in Callers :
            (InCall(c) /\ (th'[c] # th[c] \/ obs'[c] # obs[c])) => Rank(th'[c]) < Rank(th[c])]_vars

C11_Witness ==
    /\ Returned(1) /\ obs[1].op = "access_token"
    /\ obs[1].nLogin = 2 /\ obs[1].nRefresh = 1 /\ obs[1].rfStatus = 400

C13_WholeValueReplaced ==
    /\ [](tokens.held
            => /\ tokens.access_token \in 1..issued
               /\ tokens.refresh_token = 1000 + tokens.access_token
               /\ tokens.expires_at - tokens.expires_in
                     = tokens.refresh_expires_at - tokens.refresh_expires_in
               /\ tokens.expires_at - tokens.expires_in \in 0..now)
    /\ [][tokens' # tokens
            => \E c \in Callers :
                 LET b == IF th[c].pc = "rf_post" THEN obs'[c].rfBody ELSE obs'[c].lg.body IN
                 /\ th'[c] # th[c]
                 /\ HasTokens(b)
                 /\ b.access_token = issued'
                 /\ tokens'.held
                 /\ tokens'.access_token = b.access_token
                 /\ tokens'.refresh_token = b.refresh_token
                 /\ tokens'.expires_in = (IF b.expires_in = Absent THEN 300 ELSE b.expires_in)
                 /\ tokens'.refresh_expires_in
                       = (IF b.refresh_expires_in = Absent THEN 1800 ELSE b.refresh_expires_in)
                 /\ tokens'.expires_at = now + tokens'.expires_in
                 /\ tokens'.refresh_expires_at = now + tokens'.refresh_expires_in]_vars

\* caller 2's login has replaced the TokenSet that caller 1's login stored,
\* while caller 1 is still between its login and its expiry test
C13_Witness ==
    /\ th[1].pc = "at_check" /\ HasTokens(obs[1].lg.body) /\ obs[1].lg.body.access_token = 1
    /\ HasTokens(obs[2].lg.body) /\ obs[2].lg.body.access_token = 2
    /\ tokens.access_token = 2 /\ tokens.refresh_token = 1002

\* C14: access_expired is true exactly when now >= expires_at - 30 and
\* refresh_expired exactly when now >= refresh_expires_at - 30, the
\* boundaries included; a TokenSet whose expires_at is 10 seconds in the
\* past and whose refresh expiry is 1800 seconds ahead reports
\* access_expired true and refresh_expired false.
C14_ExpiryBoundaries ==
    \A c \in Callers :
        /\ (Returned(c) /\ obs[c].op = "access_expired")
              => /\ th[c].result.val = (now >= tokens.expires_at - 30)
                 /\ now = tokens.expires_at - 30 => th[c].result.val = TRUE
                 /\ now = tokens.expires_at - 31 => th[c].result.val = FALSE
                 /\ tokens.expires_at = now - 10 => th[c].result.val = TRUE
        /\ (Returned(c) /\ obs[c].op = "refresh_expired")
              => /\ th[c].result.val = (now >= tokens.refresh_expires_at - 30)
                 /\ now = tokens.refresh_expires_at - 30 => th[c].result.val = TRUE
                 /\ now = tokens.refresh_expires_at - 31 => th[c].result.val = FALSE
                 /\ tokens.refresh_expires_at = now + 1800 => th[c].result.val = FALSE

C14_Witness ==
    /\ Returned(1) /\ obs[1].op = "refresh_expired"
    /\ now = tokens.refresh_expires_at - 30 /\ th[1].result.val = TRUE
    /\ tokens.expires_at = now - 10

\* C15: a TokenSet constructed at time t without explicit timestamps has
\* expires_at = t + expires_in and refresh_expires_at = t +
\* refresh_expires_in; right after construction access_expired is false
\* when expires_in > 30 and refresh_expired is false when
\* refresh_expires_in > 30.
C15_TimestampsFromConstruction ==
    \A c \in Callers :
        (Returned(c) /\ obs[c].op = "TokenSet")
            => LET a == th[c].arg IN
               /\ a.expires_at = 0
                    => /\ tokens.expires_at = now + a.expires_in
                       /\ a.expires_in > 30 => ~access_expired(tokens, now)
               /\ a.refresh_expires_at = 0
                    => /\ tokens.refresh_expires_at = now + a.refresh_expires_in
                       /\ a.refresh_expires_in > 30 => ~refresh_expired(tokens, now)

C15_Witness ==
    /\ Returned(1) /\ obs[1].op = "TokenSet" /\ now > 1000
    /\ th[1].arg.expires_at = 0 /\ th[1].arg.expires_in = 31
    /\ th[1].arg.refresh_expires_at = 0 /\ th[1].arg.refresh_expires_in = 31
    /\ tokens.expires_at = now + 31 /\ ~access_expired(tokens, now) /\ ~refresh_expired(tokens, now)

\* the token answers caller c has read in its call and that were stored:
\* the one its current login stored and the 200 answer to its refresh POST
StoredBodies(c) == {b \in {obs[c].lg.body, obs[c].rfBody} : HasTokens(b)}

\* C16: the TokenSet stored from a 200 token answer has expires_in 300 when
\* the answer omits expires_in and refresh_expires_in 1800 when it omits
\* refresh_expires_in; when the answer carries them the stored values are
\* the answer's.
C16_LifetimeDefaults ==
    \A c \in Callers : \A b \in StoredBodies(c) :
        (tokens.held /\ tokens.access_token = b.access_token)
            => /\ b.expires_in = Absent => tokens.expires_in = 300
               /\ b.expires_in # Absent => tokens.expires_in = b.expires_in
               /\ b.refresh_expires_in = Absent => tokens.refresh_expires_in = 1800
               /\ b.refresh_expires_in # Absent => tokens.refresh_expires_in = b.refresh_expires_in

C16_Witness ==
    /\ obs[1].rfStatus = 200 /\ HasTokens(obs[1].rfBody)
    /\ tokens.access_token = obs[1].rfBody.access_token
    /\ obs[1].rfBody.expires_in = Absent /\ tokens.expires_in = 300
    /\ obs[1].rfBody.refresh_expires_in = 20 /\ tokens.refresh_expires_in = 20

\* the last resource round trip of a call
LastExchange(o) == o.res[Len(o.res)]

\* C17: an API call returns a decoded JSON body only when its last resource
\* answer has a 2xx status; a last answer with any other status reaches the
\* caller as an APIError with that status.
C17_JsonOnlyFor2xx ==
    \A c \in Callers :
        (Done(c) /\ obs[c].op = "request" /\ Len(obs[c].res) >= 1 /\ obs[c].req.kind = "resource"
                 /\ Answered(LastExchange(obs[c]).status))
            => /\ Returned(c) => LastExchange(obs[c]).status \in 200..299
               /\ LastExchange(obs[c]).status \notin 200..299
                    => /\ Raised(c)
                       /\ th[c].result.exc = "APIError"
                       /\ th[c].result.status_code = LastExchange(obs[c]).status

AuthRequestKinds == {"password_grant", "login_page", "credentials", "redirect", "exchange", "refresh"}

\* C18: when an authentication round trip fails in transport, the call ends
\* at once with the transport error itself and sends nothing further; a
\* password grant that fails in transport is followed by no PKCE request,
\* and a refresh POST that fails in transport by no login.
C18_TransportErrorPropagates ==
    \A c \in Callers :
        LET o == obs[c] IN
        /\ o.tf => /\ Raised(c)
                   /\ th[c].result.exc = "TransportError"
                   /\ o.req.kind \in AuthRequestKinds
        /\ o.lg.pw = TransportFailure
              => /\ o.tf /\ Raised(c)
                 /\ o.req = PasswordGrantRequest
                 /\ o.lg.nPw = 1 /\ o.lg.nPage = 0 /\ o.lg.nCred = 0 /\ o.lg.nExch = 0
        /\ o.lg.page = TransportFailure
              => /\ o.tf /\ Raised(c)
                 /\ o.req = LoginPageRequest
                 /\ o.lg.nPage = 1 /\ o.lg.nCred = 0 /\ o.lg.nExch = 0
        /\ o.rfStatus = TransportFailure
              => /\ o.tf /\ Raised(c)
                 /\ o.req.kind = "refresh"
                 /\ InvocationRefreshes(o) = 1
                 /\ o.nLogin = o.rfAt
        /\ (Raised(c) /\ th[c].result.exc = "TransportError" /\ o.req.kind \in AuthRequestKinds)
              => o.tf

C18_Witness ==
    /\ Raised(1) /\ obs[1].op = "access_token" /\ th[1].result.exc = "TransportError"
    /\ obs[1].rfStatus = TransportFailure /\ obs[1].nLogin = obs[1].rfAt
    /\ obs[1].lg.pw = 200

\* C19: a request is sent, and the held TokenSet replaced, only by a step of
\* a caller that is inside access_token, login() or an API request.  While
\* no caller is inside a call the held TokenSet stays as it is and no token
\* is issued, however far the clock advances; an advance of the clock
\* changes nothing but the clock.
C19_NoBackgroundActivity ==
    [][/\ now' # now => (tokens' = tokens /\ issued' = issued /\ th' = th /\ obs' = obs)
       /\ (\A c \in Callers : ~InCall(c))
            => /\ tokens' = tokens /\ issued' = issued
               /\ \A c \in Callers : obs'[c].req = NoRequest
       /\ \A c \in Callers :
            (obs'[c].req # obs[c].req /\ obs'[c].req # NoRequest)
                => /\ InCall(c) /\ th'[c] # th[c]
                   /\ obs[c].op \in {"access_token", "login", "request"}
       /\ (tokens' # tokens \/ issued' # issued)
            => \E c \in Callers : /\ InCall(c) /\ th'[c] # th[c]
                                  /\ obs'[c].req.url = TOKEN_URL]_vars

\* the held tokens have expired while no call is running, and are still held
C19_Witness ==
    /\ \A c \in Callers : ~InCall(c) /\ th[c].pc # "done"
    /\ ticks = 2 /\ tokens.held /\ tokens.expires_in = 300
    /\ access_expired(tokens, now) /\ refresh_expired(tokens, now)

\* the tag is a form whose method attribute is POST
IsPostFormTag(t) ==
    /\ Lower(t.name) = "form"
    /\ \E i \in DOMAIN t.attrs : Lower(t.attrs[i].n) = "method" /\ Lower(t.attrs[i].v) = "post"

\* the entity-decoded values of the tag's action attribute
ActionsOf(t) == {Unescape(t.attrs[i].v) : i \in {j \in DOMAIN t.attrs : Lower(t.attrs[j].n) = "action"}}

\* C20: _extract_form_action returns the entity-decoded action of a form tag
\* whose method is POST, in either attribute order and any letter case, when
\* the document has such a tag; it returns None when no form tag has both a
\* POST method and an action; and what it returns is never anything but the
\* action of a POST form.
C20_ActionOfPostFormOnly ==
    \A c \in Callers :
        (Returned(c) /\ obs[c].op = "_extract_form_action")
            => LET html == th[c].arg
                   r == th[c].result.val
               IN  /\ HasPostForm(html) => r # None
                   /\ ~HasPostForm(html) => r = None
                   /\ r # None => \E k \in DOMAIN html :
                                     IsPostFormTag(html[k]) /\ r \in ActionsOf(html[k])

(***************************************************************************)
(* The helpers of src/hyperoptic/auth.py called directly, as               *)
(* src/tests/test_auth.py does: _extract_code_from_redirect on a URL and   *)
(* _generate_code_challenge on a verifier, by either caller and at any     *)
(* time.                                                                   *)
(***************************************************************************)
\* parameters in the query string of a URL
MaxParams == 3
\* characters of a verifier
MaxVerifier == 2

\* the URLs are the empty string and the redirect URI with every query of
\* up to MaxParams parameters
ExtractCode(c) ==
    /\ th[c].pc = "idle"
    /\ LET Params == {<<k, v>> : k \in {"code", "state"}, v \in {"", "abc123", "xyz"}}
           Urls == {LocEmpty} \cup {[base |-> DEFAULT_REDIRECT_URI, query |-> q] :
                                      q \in UNION {[1..n -> Params] : n \in 0..MaxParams}}
       IN  \E url \in Urls :
              th' = [th EXCEPT ![c] = Direct(url, _extract_code_from_redirect(url))]
    /\ obs' = [obs EXCEPT ![c] = Observation("_extract_code_from_redirect")]
    /\ UNCHANGED <<tokens, now, ticks, issued, http>>

\* the verifiers are strings of up to MaxVerifier ASCII characters; arg is
\* the verifier and the time of the call
GenerateCodeChallenge(c) ==
    /\ th[c].pc = "idle"
    /\ \E verifier \in UNION {[1..n -> {65, 66}] : n \in 1..MaxVerifier} :
        th' = [th EXCEPT ![c] = Direct([verifier |-> verifier, time |-> now],
                                       _generate_code_challenge(verifier))]
    /\ obs' = [obs EXCEPT ![c] = Observation("_generate_code_challenge")]
    /\ UNCHANGED <<tokens, now, ticks, issued, http>>

\* time passes between two direct calls, whether or not a caller still
\* holds the result of the last one
Elapse ==
    /\ ticks < MaxTicks
    /\ \E d \in TickSteps : now' = now + d
    /\ ticks' = ticks + 1
    /\ UNCHANGED <<tokens, issued, th, obs, http>>

NextHelpers ==
    \/ ExtractCode(1)
    \/ \E c \in Callers :
        \/ GenerateCodeChallenge(c)
        \/ ReturnToCaller(c)
    \/ Elapse

SpecHelpers == InitConcurrent /\ [][NextHelpers]_vars

\* C21: _extract_code_from_redirect returns the value of the first code
\* parameter of the query that has a non-empty value (abc123 for
\* ...?code=abc123&state=xyz) when there is one, and None when the query has
\* no code parameter, when the URL has no query and when the URL is the
\* empty string.
C21_FirstCodeOrNone ==
    \A c \in Callers :
        (Returned(c) /\ obs[c].op = "_extract_code_from_redirect")
            => LET url == th[c].arg
                   r == th[c].result.val
                   codes == {i \in DOMAIN url.query : url.query[i][1] = "code"}
                   filled == {i \in codes : url.query[i][2] # ""}
               IN  /\ filled # {} => r = url.query[Min(filled)][2]
                   /\ codes = {} => r = None
                   /\ url.query = << >> => r = None
                   /\ url = LocEmpty => r = None
                   /\ url = LocCode => r = "abc123"

C21_Witness ==
    /\ Returned(1) /\ obs[1].op = "_extract_code_from_redirect"
    /\ th[1].arg.query = << <<"state", "abc123">>, <<"code", "xyz">>, <<"code", "abc123">> >>
    /\ th[1].result.val = "xyz"

InitClient ==
    /\ tokens = NoTokenSet
    /\ now = 0
    /\ ticks = 0
    /\ issued = 0
    /\ th = [c \in Callers |-> Thread("off")]
    /\ obs = [c \in Callers |-> NoObservation]
    /\ http \in {[client |-> "open", auth |-> "open"], [client |-> "none", auth |-> "open"]}

\* __enter__ of either class: return self
__enter__(c) ==
    /\ th[c].pc = "off"
    /\ th' = [th EXCEPT ![c] = Thread("idle")]
    /\ UNCHANGED <<tokens, now, ticks, issued, obs, http>>

\* a variant in which close() also forgets the held TokenSet
__exit__ForgetsTokens(c) ==
    /\ th[c].pc \in {"idle", "done"}
    /\ http' = IF http.client = "none" THEN [http EXCEPT !.auth = "closed"]
               ELSE [client |-> "closed", auth |-> "closed"]
    /\ th' = [th EXCEPT ![c].pc = "exited"]
    /\ tokens' = NoTokenSet
    /\ UNCHANGED <<now, ticks, issued, obs>>

\* a variant in which the client closes its own transport only
__exit__ClientOwnTransport(c) ==
    /\ th[c].pc \in {"idle", "done"}
    /\ http' = IF http.client = "none" THEN [http EXCEPT !.auth = "closed"]
               ELSE [http EXCEPT !.client = "closed"]
    /\ th' = [th EXCEPT ![c].pc = "exited"]
    /\ UNCHANGED <<tokens, now, ticks, issued, obs>>

\* __exit__ of either class, whatever ended the block: self.close(), which
\* is self._http.close() in HyperopticAuth and self._http.close() followed by
\* self._auth.close() in HyperopticClient.  The result of the last call
\* stays visible: an exception passes through.
__exit__(c) ==
    /\ th[c].pc \in {"idle", "done"}
    /\ http' = IF http.client = "none" THEN [http EXCEPT !.auth = "closed"]
               ELSE [client |-> "closed", auth |-> "closed"]
    /\ th' = [th EXCEPT ![c].pc = "exited"]
    /\ UNCHANGED <<tokens, now, ticks, issued, obs>>

\* a caller calls client.get_customers() or client.get_customer(), which
\* calls get_customers(), which calls _get("/customers")
CallCustomers(c) ==
    /\ th[c].pc = "idle"
    /\ http.client = "open"
    /\ \E op \in {"get_customers", "get_customer"} :
        /\ th' = [th EXCEPT ![c] =
                    [Thread("at_start") EXCEPT
                        !.stack = IF op = "get_customers" THEN <<"rq_send1", "gcs_data">>
                                  ELSE <<"rq_send1", "gcs_data", "gc_first">>,
                        !.path = "/customers"]]
        /\ obs' = [obs EXCEPT ![c] = Observation(op)]
    /\ UNCHANGED <<tokens, now, ticks, issued, http>>

\* get_customers once _get has returned the decoded body: the customers
\* of data["_embedded"]["customers"], where a body without the key reads as
\* the empty list; arg keeps the listing the body carried
get_customers(c) ==
    /\ th[c].pc = "gcs_data"
    /\ \E raw_customers \in {<< >>, <<7>>, <<7, 8>>, <<8, 7>>} :
        th' = [th EXCEPT ![c] = [Return(th[c], raw_customers) EXCEPT !.arg = raw_customers]]
    /\ UNCHANGED <<tokens, now, ticks, issued, obs, http>>

\* a variant that returns None for an empty listing
get_customerOrNone(c) ==
    /\ th[c].pc = "gc_first"
    /\ LET customers == th[c].retval
       IN  th' = [th EXCEPT ![c] = IF customers = << >> THEN Return(th[c], 0)
                                   ELSE Return(th[c], customers[1])]
    /\ UNCHANGED <<tokens, now, ticks, issued, obs, http>>

\* get_customer once get_customers has returned
get_customer(c) ==
    /\ th[c].pc = "gc_first"
    /\ LET customers == th[c].retval
       IN  th' = [th EXCEPT ![c] = IF customers = << >> THEN RaiseError(th[c], APIError(404, ""))
                                   ELSE Return(th[c], customers[1])]
    /\ UNCHANGED <<tokens, now, ticks, issued, obs, http>>

NextClient ==
    \E c \in {1} :
        \/ __enter__(c)
        \/ __exit__(c)
        \/ CallAccessToken(c)
        \/ CallLogin(c)
        \/ CallCustomers(c)
        \/ get_customers(c)
        \/ get_customer(c)
        \/ ReturnToCaller(c)
        \/ LibraryStep(c)

SpecClient == InitClient /\ [][NextClient]_vars

\* C23: when the /customers listing was answered 200, get_customers returns
\* the listing, the empty list included, without raising; get_customer
\* returns the first customer of the listing and, when the listing is
\* empty, raises APIError with status_code 404 instead of returning.
C23_FirstCustomerOr404 ==
    \A c \in Callers :
        (/\ Done(c) /\ obs[c].op \in {"get_customers", "get_customer"}
         /\ Len(obs[c].res) >= 1 /\ obs[c].req.kind = "resource"
         /\ LastExchange(obs[c]).status = 200)
            => LET listing == th[c].arg IN
               /\ obs[c].op = "get_customers"
                    => Returned(c) /\ th[c].result.val = listing
               /\ (obs[c].op = "get_customer" /\ listing # << >>)
                    => Returned(c) /\ th[c].result.val = listing[1]
               /\ (obs[c].op = "get_customer" /\ listing = << >>)
                    => /\ Raised(c)
                       /\ th[c].result.exc = "APIError"
                       /\ th[c].result.status_code = 404

C23_Witness ==
    /\ Raised(1) /\ obs[1].op = "get_customer"
    /\ Len(obs[1].res) = 1 /\ obs[1].res[1].status = 200
    /\ th[1].arg = << >> /\ th[1].result.exc = "APIError" /\ th[1].result.status_code = 404

\* C24: a caller that has left its with block, whether the block ended
\* normally or a call in it raised, has closed the Auth Manager's transport
\* and, when the block was a client's, the client's own transport as well;
\* the transports are closed by nothing else; and entering the block sends
\* no request and makes no login: it changes nothing but the caller's
\* position.
C24_ExitClosesTransports ==
    /\ [](\A c \in Callers :
            /\ th[c].pc = "exited" => (http.auth = "closed" /\ http.client \in {"closed", "none"})
            /\ th[c].pc \in {"off", "idle"} => obs[c] = NoObservation)
    /\ [][/\ http' # http => \E c \in Callers : th[c].pc # "exited" /\ th'[c].pc = "exited"
          /\ \A c \in Callers :
                th[c].pc = "off" /\ th'[c].pc # "off"
                    => /\ th'[c] = Thread("idle")
                       /\ tokens' = tokens /\ issued' = issued /\ obs' = obs /\ http' = http]_vars

\* a client's block left by the APIError of a call
C24_Witness ==
    /\ th[1].pc = "exited" /\ th[1].result.kind = "raise" /\ th[1].result.exc = "APIError"
    /\ obs[1].op = "get_customer"
    /\ http = [client |-> "closed", auth |-> "closed"]

\* C25: whenever a response fetched by the redirect walk is a redirect whose
\* Location carries a code, be it the 1st or the 5th response fetched, the
\* flow goes on to the token exchange with that code.
C25_EveryFetchedLocationChecked ==
    \A c \in Callers :
        (/\ obs[c].req.kind = "redirect" /\ ~obs[c].tf
         /\ ~obs[c].lg.stopped /\ obs[c].lg.loc = LocCode)
            => th[c].pc = "pk_exchange" /\ th[c].code = "abc123"

\* C26: one PKCE attempt sends at most 5 redirect GETs: the walk starts
\* after the credential POST with its counter at 0, every GET that stays in
\* the walk raises the counter by one, and no GET is sent with the counter
\* above 4.  Once a fetched response has a status that is no redirect, or no
\* Location header, and once 5 GETs have found no code, the login has raised
\* AuthenticationError, with nothing sent after that response and no code
\* exchange.
C26_BoundedWalk ==
    /\ [](\A c \in Callers :
            LET L == obs[c].lg IN
            /\ th[c].pc = "pk_walk" => th[c].hops \in 0..4
            /\ (/\ obs[c].req.kind = "redirect" /\ ~obs[c].tf
                /\ L.stopped \/ L.loc = LocEmpty)
                  => /\ Raised(c) /\ th[c].result.exc = "AuthenticationError"
                     /\ L.nExch = 0
            /\ (obs[c].req.kind = "credentials" /\ L.redirected /\ L.loc = LocEmpty)
                  => /\ Raised(c) /\ th[c].result.exc = "AuthenticationError"
                     /\ L.nExch = 0)
    /\ [][\A c \in Callers :
            /\ (th[c].pc # "pk_walk" /\ th'[c].pc = "pk_walk")
                  => th[c].pc = "pk_post" /\ th'[c].hops = 0
            /\ (th[c].pc = "pk_walk" /\ th'[c] # th[c])
                  => /\ obs'[c].req.kind = "redirect"
                     /\ th'[c].pc = "pk_walk" => th'[c].hops = th[c].hops + 1
                     /\ (th[c].hops = 4 /\ ~obs'[c].tf /\ obs'[c].lg.loc # LocCode)
                           => /\ Raised(c)' /\ th'[c].result.exc = "AuthenticationError"
                              /\ obs'[c].lg.nExch = 0]_vars

\* the fifth GET was answered with a redirect to a URL without a code
C26_Witness ==
    /\ Raised(1) /\ th[1].result.exc = "AuthenticationError"
    /\ obs[1].req.kind = "redirect" /\ ~obs[1].tf
    /\ ~obs[1].lg.stopped /\ obs[1].lg.loc = LocNoCode /\ obs[1].lg.nExch = 0

\* C27: a credential POST answered with a status other than 302 or 303
\* makes the login raise AuthenticationError with no redirect GET and no
\* code exchange sent; a login posts the credentials at most once, and
\* exactly once before any redirect GET or code exchange.
C27_NotRedirectedRaises ==
    \A c \in Callers :
        LET L == obs[c].lg IN
        /\ L.nCred <= 1
        /\ (th[c].pc \in {"pk_walk", "pk_exchange"} \/ L.nExch > 0) => (L.nCred = 1 /\ L.redirected)
        /\ (L.nCred = 1 /\ ~obs[c].tf /\ ~L.redirected)
              => /\ Raised(c) /\ th[c].result.exc = "AuthenticationError"
                 /\ obs[c].req.kind = "credentials"
                 /\ L.nExch = 0

\* a 307 whose Location carries a code
C27_Witness ==
    /\ Raised(1) /\ th[1].result.exc = "AuthenticationError"
    /\ obs[1].lg.nCred = 1 /\ ~obs[1].tf /\ ~obs[1].lg.redirected
    /\ obs[1].lg.loc = LocCode /\ obs[1].req.kind = "credentials"

\* C28: a code exchange answered with a status other than 200 ends the
\* whole login with AuthenticationError: the step stores no TokenSet, the
\* exchange is the last request of the login, and the login has sent one
\* password grant, one login-page GET, one credential POST and one exchange.
C28_ExchangeFailureIsFinal ==
    /\ [](\A c \in Callers :
            LET L == obs[c].lg IN
            (Answered(L.exch) /\ L.exch # 200)
                => /\ Raised(c) /\ th[c].result.exc = "AuthenticationError"
                   /\ obs[c].req = ExchangeRequest
                   /\ L.nExch = 1 /\ L.nPw = 1 /\ L.nPage = 1 /\ L.nCred = 1
                   /\ ~HasTokens(L.body))
    /\ [][\A c \in Callers :
            (obs'[c].lg.nExch # obs[c].lg.nExch /\ obs'[c].lg.exch # 200) => tokens' = tokens]_vars

C28_Witness ==
    /\ Raised(1) /\ th[1].result.exc = "AuthenticationError"
    /\ obs[1].lg.exch = 201 /\ obs[1].lg.nExch = 1 /\ obs[1].req = ExchangeRequest
    /\ tokens.held /\ obs[1].entry = "FullyExpired"

\* C29: an API call whose re-login after a 401 fails raises what that login
\* raised, never an APIError, and does not send the request again; a call
\* whose token acquisition fails before the first request raises likewise
\* and sends no resource request.  What is raised is the login's
\* AuthenticationError, unless the failure was one of transport or a 200
\* token answer without tokens.
C29_LoginFailurePropagates ==
    \A c \in Callers :
        (Done(c) /\ obs[c].op = "request")
            => LET o == obs[c]
                   refused == ~o.tf /\ o.lg.pw # 200 /\ o.lg.exch # 200 /\ o.req.kind # "refresh"
               IN
               /\ (Len(o.res) = 1 /\ o.res[1].status = 401 /\ ~HasTokens(o.relogin))
                    => /\ Raised(c)
                       /\ th[c].result.exc \in {"AuthenticationError", "TransportError", "KeyError"}
                       /\ th[c].result.exc = "AuthenticationError" <=> refused
                       /\ th[c].result.status_code = 0
                       /\ o.req.kind \in AuthRequestKinds
                       /\ LoginsAfter401(o) = 1 /\ RefreshesAfter401(o) = 0
               /\ Len(o.res) = 0
                    => /\ Raised(c)
                       /\ th[c].result.exc \in {"AuthenticationError", "TransportError", "KeyError"}
                       /\ th[c].result.exc = "AuthenticationError" <=> refused
                       /\ o.req.kind \in AuthRequestKinds

\* the re-login's password grant and code exchange were both refused
C29_Witness ==
    /\ Raised(1) /\ obs[1].op = "request" /\ th[1].result.exc = "AuthenticationError"
    /\ Len(obs[1].res) = 1 /\ obs[1].res[1].status = 401
    /\ obs[1].lg.pw = 400 /\ obs[1].lg.exch = 400 /\ tokens.held

\* C30 as stated: with two callers on one manager at most one of them is in
\* an exchange with the token endpoint (password grant, code exchange or
\* refresh POST) at any time, and two calls that both start on an
\* Unauthenticated manager make one login between them.
C30_OneExchangeInFlight ==
    \A c, d \in Callers :
        c # d => /\ ~(/\ th[c].pc \in {"pw_grant", "pk_exchange", "rf_post"}
                      /\ th[d].pc \in {"pw_grant", "pk_exchange", "rf_post"})
                 /\ (obs[c].entry = "Unauthenticated" /\ obs[d].entry = "Unauthenticated")
                        => obs[c].nLogin + obs[d].nLogin <= 1

\* C30 amended: nothing serializes the callers.  A caller inside a call can
\* always take its next step, whatever the other caller is doing, and a
\* caller of access_token that finds no TokenSet held starts a login of its
\* own even while the other caller's login is under way; so two callers can
\* be in an exchange with the token endpoint at once, and two calls on an
\* Unauthenticated manager can make two logins.
C30_CallersNotSerialized ==
    /\ [](\A c \in Callers :
            /\ InCall(c) => ENABLED LibraryStep(c)
            /\ (obs[c].op = "login" /\ th[c].pc # "login") => obs[c].nLogin >= 1)
    /\ [][\A c \in Callers :
            (th[c].pc = "at_start" /\ ~tokens.held /\ th'[c] # th[c])
                => /\ th'[c].pc = "login"
                   /\ th'[c].stack = <<"at_check">> \o th[c].stack]_vars

\* both callers found the manager Unauthenticated and are in their password
\* grant at once
C30_Witness ==
    /\ th[1].pc = "pw_grant" /\ th[2].pc = "pw_grant"
    /\ obs[1].entry = "Unauthenticated" /\ obs[2].entry = "Unauthenticated"
    /\ obs[1].nLogin = 1 /\ obs[2].nLogin = 1 /\ ~tokens.held

\* C31: a login or refresh that ends by raising (AuthenticationError, a
\* transport failure, or a 200 token answer that lacks a token) leaves the
\* held TokenSet as it was: no step of a login or refresh changes the held
\* TokenSet except the one on which the operation stores a well-formed
\* answer and returns.  So after a call that raised without storing
\* anything, absent is still absent and an expired TokenSet is still held
\* and still expired.
C31_FailureKeepsTokenSet ==
    /\ [](\A c \in Callers :
            (/\ Raised(c) /\ obs[c].op \in {"login", "access_token"}
             /\ ~HasTokens(obs[c].first) /\ ~HasTokens(obs[c].rfBody))
                => /\ obs[c].entry = "Unauthenticated" <=> ~tokens.held
                   /\ obs[c].entry \in {"AccessExpired", "FullyExpired"} => access_expired(tokens, now)
                   /\ obs[c].entry = "FullyExpired" => AuthState(tokens, now) = "FullyExpired")
    /\ [][\A c \in Callers :
            (th[c].pc \in LoginPcs \cup {"login", "rf_post"} /\ th'[c] # th[c])
                => /\ Raised(c)' => tokens' = tokens
                   /\ tokens' # tokens
                        => /\ th'[c] = Return(th[c], 0)
                           /\ HasTokens(obs'[c].lg.body) \/ HasTokens(obs'[c].rfBody)]_vars

\* a refresh that was refused fell back to a login, which raised: the
\* TokenSet of before is still held
C31_Witness ==
    /\ Raised(1) /\ obs[1].op = "access_token" /\ obs[1].entry = "AccessExpired"
    /\ obs[1].rfStatus = 400 /\ obs[1].nLogin = 1 /\ th[1].result.exc = "AuthenticationError"
    /\ tokens.held /\ tokens.access_token = 1 /\ access_expired(tokens, now)

\* C32: once a TokenSet is held, one is held ever after: no step of
\* access_token, login, refresh, an API request or close, whether the
\* operation succeeds or fails, resets the held TokenSet to absent; and
\* whenever the last login or refresh of a caller has stored an answer, a
\* TokenSet is held.
C32_NeverBackToUnauthenticated ==
    /\ [](\A c \in Callers :
            (HasTokens(obs[c].lg.body) \/ HasTokens(obs[c].rfBody)) => tokens.held)
    /\ [][tokens.held => tokens'.held]_vars

\* a TokenSet was held, a later login failed, and the block was left: the
\* transports are closed and the TokenSet is still held
C32_Witness ==
    /\ th[1].pc = "exited" /\ th[1].result.kind = "raise"
    /\ th[1].result.exc = "AuthenticationError" /\ obs[1].entry # "Unauthenticated"
    /\ http.auth = "closed" /\ tokens.held

\* C33: a call of access_token that finds a TokenSet held and not
\* access_expired sends no request, makes no login and no refresh, and
\* returns the held access token, whether or not the refresh token has
\* expired; no step of such a call changes the held TokenSet, the clock or
\* what the server has issued, so a call repeated in that state returns the
\* same token.
C33_ValidTokenReturnedAsIs ==
    /\ [](\A c \in Callers :
            (obs[c].op = "access_token" /\ obs[c].entry = "Authenticated")
                => /\ obs[c].req = NoRequest
                   /\ obs[c].nLogin = 0 /\ obs[c].nRefresh = 0
                   /\ tokens.held /\ ~access_expired(tokens, now)
                   /\ th[c].pc \in {"at_start", "at_check", "at_ret", "done"}
                   /\ Done(c) => Returned(c) /\ th[c].result.val = tokens.access_token)
    /\ [][\A c \in Callers :
            (obs[c].op = "access_token" /\ obs[c].entry = "Authenticated" /\ InCall(c))
                => tokens' = tokens /\ now' = now /\ issued' = issued /\ obs' = obs]_vars

\* the access token is valid while the refresh token has expired
C33_Witness ==
    /\ Returned(1) /\ obs[1].op = "access_token" /\ obs[1].entry = "Authenticated"
    /\ refresh_expired(tokens, now) /\ ~access_expired(tokens, now)
    /\ obs[1].req = NoRequest /\ th[1].result.val = tokens.access_token

\* C34: whenever login() returns normally the held TokenSet is the one
\* built, at that moment, from a 200 token answer with both tokens that
\* this very login has received: the answer to its password grant or, when
\* that was refused, the answer to its code exchange.  So a TokenSet is
\* held wherever access_token and _refresh assert one, and no call raises
\* AssertionError.
C34_LoginReturnsWithTokenSet ==
    /\ [](\A c \in Callers :
            /\ th[c].pc \in {"at_check", "at_ret", "rf_post", "rq_hdr2"} => tokens.held
            /\ Raised(c) => th[c].result.exc # "AssertionError"
            /\ (Returned(c) /\ obs[c].op = "login") => BuiltFrom(obs[c].lg.body))
    /\ [][\A c \in Callers :
            (/\ th[c].pc \in LoginPcs
             /\ th'[c].pc \notin LoginPcs /\ ~Raised(c)')
                => LET L == obs'[c].lg IN
                   /\ HasTokens(L.body) /\ L.body.access_token = issued' /\ issued' = issued + 1
                   /\ BuiltFrom(obs[c].lg.body)'
                   /\ obs'[c].req.kind \in {"password_grant", "exchange"}
                   /\ obs'[c].req.kind = "password_grant" => L.pw = 200 /\ L.nPage = 0
                   /\ obs'[c].req.kind = "exchange" => L.exch = 200 /\ Answered(L.pw) /\ L.pw # 200]_vars

\* login() returned after the password grant was refused and the code
\* exchange answered 200
C34_Witness ==
    /\ Returned(1) /\ obs[1].op = "login"
    /\ obs[1].lg.pw = 400 /\ obs[1].lg.exch = 200
    /\ BuiltFrom(obs[1].lg.body) /\ obs[1].lg.body.access_token = issued

\* C35: an API call sends a resource request only after access_token has
\* returned a token to it: every resource request carries, as its bearer,
\* the access token held at that moment, which is one the token endpoint
\* has issued with a 200 answer; and a call whose token acquisition raised
\* before the first attempt has sent no resource request at all.
C35_NoRequestWithoutToken ==
    /\ [](\A c \in Callers :
            /\ \A i \in DOMAIN obs[c].res :
                  /\ obs[c].res[i].bearer \in 1..issued
                  /\ obs[c].res[i].bearer = obs[c].res[i].held
            /\ obs[c].req.kind = "resource" => Len(obs[c].res) >= 1
            /\ (Raised(c) /\ obs[c].op = "request" /\ obs[c].req.kind # "resource")
                  => /\ Len(obs[c].res) <= 1
                     /\ \A i \in DOMAIN obs[c].res : obs[c].res[i].status = 401
            /\ (th[c].pc \in {"rq_send1", "rq_send2"}) => (tokens.held /\ th[c].retval = tokens.access_token))
    /\ [][\A c \in Callers :
            Len(obs'[c].res) > Len(obs[c].res)
                => /\ th[c].pc \in {"rq_send1", "rq_send2"}
                   /\ Len(obs'[c].res) = Len(obs[c].res) + 1
                   /\ obs'[c].req = ResourceRequest(th[c].path, tokens.access_token)
                   /\ tokens.held /\ tokens.access_token \in 1..issued]_vars

\* the first token acquisition of an API call failed: nothing was sent to
\* the API
C35_Witness ==
    /\ Raised(1) /\ obs[1].op = "request" /\ obs[1].entry = "Unauthenticated"
    /\ obs[1].res = << >> /\ obs[1].req.kind = "exchange" /\ issued = 0 /\ ~tokens.held

\* C37: a TokenSet stored from a token answer whose refresh_expires_in is
\* at least its expires_in (300 and 1800 standing for an omitted field) has
\* refresh_expires_at >= expires_at; so at every later time refresh_expired
\* implies access_expired, and the held TokenSet is Authenticated (access
\* valid), AccessExpired (access expired, refresh valid) or FullyExpired
\* (both expired), never valid for refresh only.
C37_RefreshOutlivesAccess ==
    /\ \A c \in Callers : \A b \in StoredBodies(c) :
          LET e == IF b.expires_in = Absent THEN 300 ELSE b.expires_in
              r == IF b.refresh_expires_in = Absent THEN 1800 ELSE b.refresh_expires_in
          IN  (tokens.held /\ tokens.access_token = b.access_token /\ r >= e)
                 => /\ tokens.refresh_expires_at >= tokens.expires_at
                    /\ tokens.refresh_expires_in = r /\ tokens.expires_in = e
                    /\ refresh_expired(tokens, now) => access_expired(tokens, now)
    /\ (tokens.held /\ tokens.refresh_expires_in >= tokens.expires_in)
          => /\ tokens.refresh_expires_at >= tokens.expires_at
             /\ refresh_expired(tokens, now) => access_expired(tokens, now)
             /\ AuthState(tokens, now) = "Authenticated" <=> ~access_expired(tokens, now)
             /\ AuthState(tokens, now) = "FullyExpired" <=> refresh_expired(tokens, now)
             /\ AuthState(tokens, now) = "AccessExpired"
                   <=> (access_expired(tokens, now) /\ ~refresh_expired(tokens, now))

\* a login stored an answer with expires_in 20 and no refresh_expires_in;
\* 300 seconds later the access token has expired and the refresh token
\* has not
C37_Witness ==
    /\ HasTokens(obs[1].lg.body) /\ tokens.access_token = obs[1].lg.body.access_token
    /\ obs[1].lg.body.expires_in = 20 /\ obs[1].lg.body.refresh_expires_in = Absent
    /\ now >= 300 /\ tokens.refresh_expires_at - tokens.expires_at = 1780
    /\ AuthState(tokens, now) = "AccessExpired"

\* C36: every PKCE attempt generates a verifier of its own: the challenge
\* in the query of its login-page GET differs from the challenge of every
\* other attempt of the call and of every attempt of the other caller's
\* call, the verifier it keeps while the flow runs and
\* the code_verifier its code exchange sends are the one whose S256
\* challenge that GET carried, and the verifier is gone once the attempt
\* is over.
C36_VerifierPerAttempt ==
    \A c \in Callers :
        LET o == obs[c]
            sent == o.challenges
        IN  /\ Len(sent) = o.nPkce
            /\ \A d \in Callers : \A i \in DOMAIN sent, j \in DOMAIN obs[d].challenges :
                  (c # d \/ i # j) => sent[i] # obs[d].challenges[j]
            /\ th[c].pc \in {"pk_post", "pk_walk", "pk_exchange"}
                  => /\ o.lg.nPage = 1 /\ th[c].code_verifier # << >>
                     /\ _generate_code_challenge(th[c].code_verifier) = sent[Len(sent)]
            /\ th[c].pc \notin {"pk_post", "pk_walk", "pk_exchange"} => th[c].code_verifier = << >>
            /\ o.lg.nExch = 1
                  => /\ o.lg.nPage = 1 /\ o.lg.verifier # << >>
                     /\ \A i \in DOMAIN sent :
                           (i = Len(sent)) <=> (sent[i] = _generate_code_challenge(o.lg.verifier))
            /\ o.lg.nExch = 0 => o.lg.verifier = << >>

\* the second PKCE attempt of a call has sent its code exchange while the
\* other caller is inside an attempt of its own
C36_Witness ==
    /\ obs[1].nPkce = 2 /\ obs[1].lg.nExch = 1 /\ obs[1].lg.exch = 200
    /\ th[2].pc = "pk_exchange" /\ th[2].code_verifier # obs[1].lg.verifier
    /\ obs[1].challenges[1] # obs[1].challenges[2]
    /\ _generate_code_challenge(obs[1].lg.verifier) = obs[1].challenges[2]

(***************************************************************************)
(* The customers the API knows.  Customer 7 has an account with a          *)
(* connection link, one without, and a second one with a link; customer 8  *)
(* has an account whose connection link has an empty href and one with a   *)
(* link.  An href is the sequence of its pieces between the slashes.       *)
(***************************************************************************)
Accounts(customer) ==
    LET Href(connection_id) ==
            <<"https:", "", "api.hyperopticportal.com", "account-service", "connections", connection_id>>
    IN
    IF customer = 7
    THEN << [id |-> "a1", links |-> << <<"self", <<"a1">> >>, <<"connection", Href("c1")>> >>],
            [id |-> "a2", links |-> << <<"self", <<"a2">> >> >>],
            [id |-> "a3", links |-> << <<"connection", Href("c2")>> >>] >>
    ELSE << [id |-> "a4", links |-> << <<"connection", <<"">> >> >>],
            [id |-> "a5", links |-> << <<"connection", Href("c3")>> >>] >>

\* a variant that falls back to the account's own link
connection_urlOrSelf(account) ==
    IF account.links # << >> THEN account.links[Len(account.links)][2] ELSE << >>

\* Account.connection_url: the href of the connection link, or None (which
\* stands as the URL of no pieces)
connection_url(account) ==
    LET link == SelectSeq(account.links, LAMBDA l : l[1] = "connection")
    IN  IF link # << >> THEN link[1][2] ELSE << >>

\* get_my_connections once get_customer has returned the customer, and once
\* a get_connection has returned a body: the loop goes on to the next
\* account whose connection_url is neither None nor empty, and calls
\* get_connection with what follows the last slash of the URL, which calls
\* _get("/connections/<id>"); after the last account it returns the list
get_my_connections(c) ==
    /\ th[c].pc \in {"gmc_customer", "gmc_conn"}
    /\ LET t == th[c]
           RECURSIVE Skip(_)
           Skip(as) == IF as = << >> \/ connection_url(Head(as)) \notin {<< >>, <<"">>} THEN as
                       ELSE Skip(Tail(as))
           accounts == Skip(IF t.pc = "gmc_customer" THEN Accounts(t.retval) ELSE Tail(t.accounts))
           connections == IF t.pc = "gmc_customer" THEN << >>
                          ELSE Append(t.connections, [of |-> t.path, body |-> t.retval])
           url == connection_url(Head(accounts))
           conn_id == url[Len(url)]
       IN  th' = [th EXCEPT ![c] =
                    IF accounts = << >>
                    THEN [Return(t, connections) EXCEPT !.accounts = << >>, !.connections = << >>]
                    ELSE [Call(Call(t, "at_start", "gmc_conn"), "at_start", "rq_send1") EXCEPT
                             !.path = "/connections/" \o conn_id,
                             !.accounts = accounts, !.connections = connections]]
    /\ UNCHANGED <<tokens, now, ticks, issued, obs, http>>

\* a caller calls client.get_my_connections(), which calls get_customer(),
\* which calls get_customers(), which calls _get("/customers")
CallConnections(c) ==
    /\ th[c].pc = "idle"
    /\ http.client = "open"
    /\ th' = [th EXCEPT ![c] =
                [Thread("at_start") EXCEPT
                    !.stack = <<"rq_send1", "gcs_data", "gc_first", "gmc_customer">>,
                    !.path = "/customers"]]
    /\ obs' = [obs EXCEPT ![c] = Observation("get_my_connections")]
    /\ UNCHANGED <<tokens, now, ticks, issued, http>>

\* a client whose Auth Manager has logged in: the first token answer, with
\* the default lifetimes, is held
InitConnections ==
    /\ tokens = _store_tokens([NoBody EXCEPT !.access_token = 1, !.refresh_token = 1001], 0)
    /\ now = 0
    /\ ticks = 0
    /\ issued = 1
    /\ th = [c \in Callers |-> Thread(IF c = 1 THEN "idle" ELSE "off")]
    /\ obs = [c \in Callers |-> NoObservation]
    /\ http = [client |-> "open", auth |-> "open"]

NextConnections ==
    \E c \in {1} :
        \/ CallConnections(c)
        \/ get_customers(c)
        \/ get_customer(c)
        \/ get_my_connections(c)
        \/ ReturnToCaller(c)
        \/ LibraryStep(c)

SpecConnections == InitConnections /\ [][NextConnections]_vars

\* C38 as stated: get_my_connections first requests /customers and then,
\* for the primary customer, /connections/<id> once per account that has a
\* connection link, in account order, where <id> is what follows the last
\* slash of the link; accounts without a link cause no request; and the
\* list returned holds the bodies of these requests in that order.  (A
\* request answered 401 is sent again after a login; it counts once.)
C38_OneRequestPerLink ==
    \A c \in Callers :
        obs[c].op = "get_my_connections"
            => LET sent == SelectSeq(obs[c].res, LAMBDA e : e.status # 401)
                   listing == th[c].arg
                   linked == SelectSeq(Accounts(listing[1]),
                                       LAMBDA a : \E i \in DOMAIN a.links : a.links[i][1] = "connection")
                   Link(a) == a.links[CHOOSE i \in DOMAIN a.links : a.links[i][1] = "connection"][2]
                   Path(a) == "/connections/" \o Link(a)[Len(Link(a))]
               IN  /\ \A i \in DOMAIN sent :
                         IF i = 1 THEN sent[i].path = "/customers"
                         ELSE /\ listing # << >> /\ i - 1 <= Len(linked)
                              /\ sent[i].path = Path(linked[i - 1])
                   /\ Returned(c)
                         => /\ Len(sent) = 1 + Len(linked)
                            /\ th[c].result.val = [k \in 1..Len(linked) |->
                                                      [of |-> Path(linked[k]), body |-> 1]]

\* C38 amended: the same, where the accounts that cause a request are those
\* whose connection link has a non-empty href; an account without a link,
\* or with a link whose href is empty, causes no request.
C38_OneRequestPerNonEmptyLink ==
    \A c \in Callers :
        obs[c].op = "get_my_connections"
            => LET sent == SelectSeq(obs[c].res, LAMBDA e : e.status # 401)
                   listing == th[c].arg
                   linked == SelectSeq(Accounts(listing[1]),
                                       LAMBDA a : \E i \in DOMAIN a.links :
                                                     /\ a.links[i][1] = "connection"
                                                     /\ a.links[i][2] # <<"">>)
                   Link(a) == a.links[CHOOSE i \in DOMAIN a.links : a.links[i][1] = "connection"][2]
                   Path(a) == "/connections/" \o Link(a)[Len(Link(a))]
               IN  /\ \A i \in DOMAIN sent :
                         IF i = 1 THEN sent[i].path = "/customers"
                         ELSE /\ listing # << >> /\ i - 1 <= Len(linked)
                              /\ sent[i].path = Path(linked[i - 1])
                   /\ Returned(c)
                         => /\ Len(sent) = 1 + Len(linked)
                            /\ th[c].result.val = [k \in 1..Len(linked) |->
                                                      [of |-> Path(linked[k]), body |-> 1]]

\* customer 7: the first and the third account have a link, the second has
\* none; the first connection request was answered 401 and sent again
C38_Witness ==
    /\ Returned(1) /\ obs[1].op = "get_my_connections" /\ th[1].arg[1] = 7
    /\ Len(obs[1].res) = 4 /\ obs[1].res[2].status = 401
    /\ obs[1].res[3].path = "/connections/c1" /\ obs[1].res[4].path = "/connections/c2"
    /\ th[1].result.val = << [of |-> "/connections/c1", body |-> 1],
                             [of |-> "/connections/c2", body |-> 1] >>
====
